---- MODULE Spec2Model ----
(***************************************************************************)
(* A model of ccindex.py: the alias-chain loop, the Type Descriptor        *)
(* recursion, the hierarchy walk, the symbol assembler, the pre-order      *)
(* traversal and the entry point.  The compiler front end (libclang) is    *)
(* the environment: its answers are the inputs drawn in Init.              *)
(***************************************************************************)
EXTENDS Integers, Sequences, FiniteSets, TLC

(***************************************************************************)
(* Bounds of the model.                                                    *)
(***************************************************************************)
MaxTypes == 3      \* type objects the front end knows in the alias-chain runs
MaxSpellings == 2  \* distinct non-empty type spellings
MaxChain == 6      \* cap on the alias chain, so that a runaway loop stays finite
MaxLayers == 3     \* alias/pointer/array layers wrapped around a base type
MaxDepth == 6      \* cap on the recursion depth of _collect_type_info
MaxLevel == 1      \* template nesting levels of a type parameter: 0..MaxLevel
MaxIndex == 1      \* positions of a type parameter in its template: 0..MaxIndex
MaxNodes == 3      \* nodes of a tree handed to _visit_cursor
MaxWalk == 3       \* nodes of a tree handed to _traverse_ast
MaxUnitNodes == 2  \* nodes of the translation unit of the entry point
MaxCalls == 2      \* calls of the entry point in one process
MaxDiagnostics == 2 \* diagnostics of the translation unit
MaxArraySize == 2  \* the larger of the element counts of a constant array

VARIABLES
    \* ---- _get_type_alias_chain (one call) ----
    decls,        \* front end: type id -> [spelling, decl_kind, underlying]
    type_obj,     \* the argument of the call
    chain,        \* the local list `chain`
    temp_type,    \* the local `temp_type`
    chain_pc,     \* "idle" | "loop" | "done"
    \* ---- _collect_type_info (one outermost call) ----
    t_input,      \* the type handed to the outermost call
    t_stack,      \* the active calls, outermost first: the c_type of each
    t_res,        \* the descriptor returned by the call that just finished
    t_pc,         \* "idle" | "call" | "return" | "done" | "raised"
    \* ---- the front end's tree and one call of _visit_cursor ----
    ast,          \* the nodes of the translation unit, in pre-order
    macro_instant_locs_name_map, \* location -> macro name
    v_cursor,     \* the node handed to _visit_cursor (an index of ast)
    symbol,       \* the dict returned by _visit_cursor
    v_pc,         \* "idle" | "done" | "raised"
    \* ---- one call of _traverse_ast ----
    user_include_paths, \* the user include directories of the call
    pos,          \* the index of the next node of walk_preorder()
    count,        \* the local `count`
    symbols,      \* the local list `symbols`
    tr_pc,        \* "idle" | "walk" | "returned" | "raised"
    \* ---- the process and the calls of the entry point ----
    user_path_list, \* the user_include_path_list the call was given
    SYS_INCLUDE_PATHS, \* the module-level list
    fs_dirs,      \* the directories that exist
    target_is_file, \* whether the target file exists
    entry,        \* "get" | "main": the library function or the command line
    tu_diagnostics, \* tu.diagnostics of the target file
    tu_includes,  \* tu.get_includes() of the target file
    clang_args,   \* the arguments handed to index.parse
    pc,           \* "idle" | "ready" | "parse" | "traverse" | "finish"
    results       \* what each finished call returned, in call order

chainVars == <<decls, type_obj, chain, temp_type, chain_pc>>
typeVars == <<t_input, t_stack, t_res, t_pc>>
visitVars == <<ast, macro_instant_locs_name_map, v_cursor, symbol, v_pc>>
walkVars == <<user_include_paths, pos, count, symbols, tr_pc>>
entryVars ==
    <<user_path_list, SYS_INCLUDE_PATHS, fs_dirs, target_is_file, entry,
      tu_diagnostics, tu_includes, clang_args, pc, results>>
vars == <<chainVars, typeVars, visitVars, walkVars, entryVars>>
notChainVars == <<typeVars, visitVars, walkVars, entryVars>>
notTypeVars == <<chainVars, visitVars, walkVars, entryVars>>
notVisitVars == <<chainVars, typeVars, walkVars, entryVars>>
notTraverseVars == <<chainVars, typeVars, entryVars>>

Last(s) == s[Len(s)]
Front(s) == SubSeq(s, 1, Len(s) - 1)

(***************************************************************************)
(* The alias chain: _get_type_alias_chain.                                 *)
(*                                                                         *)
(* A type object is an id in TypeIds; id InvalidType is the invalid type   *)
(* the front end returns as underlying_typedef_type of a cursor that is    *)
(* not a typedef: its spelling is "" and it has no declaration.            *)
(***************************************************************************)
TypeIds == 1..MaxTypes
InvalidType == 0
EmptySpelling == 0
Spellings == 1..MaxSpellings

\* What the front end can say about one type.  A typedef declaration has an
\* underlying type; any other declaration (struct, class, enum) and the
\* absence of a declaration give the invalid type.
DeclInfos ==
    { d \in [spelling: Spellings,
             decl_kind: {"NO_DECL_FOUND", "TYPEDEF_DECL", "STRUCT_DECL"},
             underlying: TypeIds \cup {InvalidType}] :
        (d.decl_kind = "TYPEDEF_DECL") <=> (d.underlying # InvalidType) }

spelling(t) == IF t = InvalidType THEN EmptySpelling ELSE decls[t].spelling
get_declaration_kind(t) ==
    IF t = InvalidType THEN "NO_DECL_FOUND" ELSE decls[t].decl_kind
underlying_typedef_type(t) ==
    IF t = InvalidType THEN InvalidType ELSE decls[t].underlying

\* line 264: the condition under which the next type is appended
ChainGuardSkipsLast(next) ==
    spelling(next) # EmptySpelling

ChainGuard(next) ==
    spelling(next) # EmptySpelling /\ spelling(Last(chain)) # spelling(next)

\* lines 258-259
ChainStart ==
    /\ chain_pc = "idle"
    /\ chain' = <<type_obj>>
    /\ temp_type' = type_obj
    /\ chain_pc' = "loop"
    /\ UNCHANGED <<decls, type_obj, notChainVars>>

\* lines 261-262: no declaration, leave the loop
ChainNoDecl ==
    /\ chain_pc = "loop"
    /\ get_declaration_kind(temp_type) = "NO_DECL_FOUND"
    /\ chain_pc' = "done"
    /\ UNCHANGED <<decls, type_obj, chain, temp_type, notChainVars>>

\* lines 263-265: one more layer
ChainAppend ==
    /\ chain_pc = "loop"
    /\ get_declaration_kind(temp_type) # "NO_DECL_FOUND"
    /\ ChainGuard(underlying_typedef_type(temp_type))
    /\ Len(chain) < MaxChain
    /\ temp_type' = underlying_typedef_type(temp_type)
    /\ chain' = Append(chain, temp_type')
    /\ UNCHANGED <<decls, type_obj, chain_pc, notChainVars>>

\* lines 263-267: the guard fails, leave the loop
ChainBreak ==
    /\ chain_pc = "loop"
    /\ get_declaration_kind(temp_type) # "NO_DECL_FOUND"
    /\ ~ChainGuard(underlying_typedef_type(temp_type))
    /\ temp_type' = underlying_typedef_type(temp_type)
    /\ chain_pc' = "done"
    /\ UNCHANGED <<decls, type_obj, chain, notChainVars>>

ChainNext == ChainStart \/ ChainNoDecl \/ ChainAppend \/ ChainBreak

ChainIdle ==
    /\ decls = [t \in TypeIds |->
                  [spelling |-> 1, decl_kind |-> "NO_DECL_FOUND",
                   underlying |-> InvalidType]]
    /\ type_obj = 1
    /\ chain = <<>>
    /\ temp_type = InvalidType
    /\ chain_pc = "idle"

\* The type ids are interchangeable, so the type handed in is numbered 1.
ChainInit ==
    /\ decls \in [TypeIds -> DeclInfos]
    /\ type_obj = 1
    /\ chain = <<>>
    /\ temp_type = InvalidType
    /\ chain_pc = "idle"

(***************************************************************************)
(* The Type Descriptor recursion: _collect_type_info.                      *)
(*                                                                         *)
(* A type of the front end is a finite term: a base type under a sequence  *)
(* of layers, outermost first.  Its kind is the kind of the outermost      *)
(* layer, or of the base when there is none.                               *)
(***************************************************************************)
AliasKinds == {"TYPEDEF", "ELABORATED"}
array_TypeKind ==
    {"CONSTANTARRAY", "INCOMPLETEARRAY", "VARIABLEARRAY", "DEPENDENTSIZEDARRAY"}
pointer_TypeKind == {"POINTER", "MEMBERPOINTER"}
LayerKinds == AliasKinds \cup array_TypeKind \cup pointer_TypeKind
\* base types: a builtin or record; and four of kind UNEXPOSED: a function
\* type, a template type parameter T, the canonical type of one (spelled
\* type-parameter-L-I) and a dependent type that is none of these
BaseTypes ==
    {"plain", "function", "type_parameter", "canonical_type_parameter",
     "dependent"}
TypeParameterBases == {"type_parameter", "canonical_type_parameter"}
\* the coordinates of a template type parameter: the level of its template
\* and its position in that template's parameter list
Coordinates == {<<0, 0>>, <<MaxLevel, MaxIndex>>}

RECURSIVE SeqsUpTo(_, _)
SeqsUpTo(S, n) ==
    IF n = 0 THEN {<<>>}
    ELSE LET shorter == SeqsUpTo(S, n - 1)
         IN shorter \cup {Append(s, x) : s \in shorter, x \in S}

\* the element counts of a constant array: `int a[0]` (a zero-length array,
\* accepted by the front end) and a larger one
ArrayCounts == {0, MaxArraySize}
HasConstantArray(layers) ==
    \E i \in 1..Len(layers) : layers[i] = "CONSTANTARRAY"

\* only a template type parameter has coordinates; the constant arrays of a
\* term have num_elements elements each
Types ==
    { t \in [layers: SeqsUpTo(LayerKinds, MaxLayers), base: BaseTypes,
             level: 0..MaxLevel, index: 0..MaxIndex,
             num_elements: ArrayCounts] :
        /\ <<t.level, t.index>> \in Coordinates
        /\ t.base \notin TypeParameterBases => <<t.level, t.index>> = <<0, 0>>
        /\ ~HasConstantArray(t.layers) => t.num_elements = MaxArraySize }

NumLayers(t) == Len(t.layers)

type_kind(t) ==
    IF t.layers # <<>> THEN Head(t.layers)
    ELSE IF t.base = "plain" THEN "INT" ELSE "UNEXPOSED"

\* c_type.get_array_size(): the element count of a constant array, -1 of
\* every other type
get_array_size(t) ==
    IF type_kind(t) = "CONSTANTARRAY" THEN t.num_elements ELSE -1

IsAliasKind(k) == k \in AliasKinds
\* the canonical type has every alias layer stripped, and names a template
\* type parameter by its coordinates
get_canonical(t) ==
    [t EXCEPT !.layers = SelectSeq(t.layers, LAMBDA k : ~IsAliasKind(k)),
              !.base = IF t.base = "type_parameter"
                       THEN "canonical_type_parameter" ELSE t.base]
get_array_element_type(t) == [t EXCEPT !.layers = Tail(t.layers)]
get_pointee(t) == [t EXCEPT !.layers = Tail(t.layers)]

\* c_type.spelling, as tokens: a function type ends in ")"
RECURSIVE TypeSpelling(_)
TypeSpelling(t) ==
    IF t.layers = <<>>
    THEN CASE t.base = "plain" -> <<"int">>
           [] t.base = "function" -> <<"int", "(", "int", ")">>
           [] t.base = "type_parameter" -> <<"T">>
           [] t.base = "canonical_type_parameter" ->
                  <<"type-parameter-", t.level, "-", t.index>>
           [] t.base = "dependent" -> <<"typename", "T", "::", "type">>
    ELSE LET inner == TypeSpelling([t EXCEPT !.layers = Tail(t.layers)])
         IN CASE Head(t.layers) \in AliasKinds -> <<"Alias", Len(t.layers)>>
              [] Head(t.layers) \in array_TypeKind -> inner \o <<"[", "]">>
              [] Head(t.layers) \in pointer_TypeKind -> inner \o <<"*">>

\* lines 251-255; _format_type_spelling only changes the spacing
_format_type(t) ==
    IF Head(TypeSpelling(t)) = "type-parameter-"
    THEN <<"(", "type_parameter", ")">>
    ELSE TypeSpelling(t)

\* the branch taken by lines 523, 550-551, 564, 577, 594, 607
Category(t) ==
    LET k == type_kind(t)
    IN IF k \in AliasKinds THEN "alias"
       ELSE IF k = "UNEXPOSED"
            THEN (IF Last(_format_type(t)) = ")" THEN "function"
                  ELSE "type_parameter")
       ELSE IF k \in array_TypeKind THEN "array"
       ELSE IF k \in pointer_TypeKind THEN "pointer"
       ELSE "plain"

\* lines 546-547: the type the alias branch recurses into
AliasRecursionArgSameType(c_type) == c_type

AliasRecursionArg(c_type) == get_canonical(c_type)

\* the argument of the recursive call of each branch
RecursionArg(c_type) ==
    CASE Category(c_type) = "alias" -> AliasRecursionArg(c_type)
      [] Category(c_type) = "array" -> get_array_element_type(c_type)
      [] Category(c_type) = "pointer" -> get_pointee(c_type)


(***************************************************************************)
(* Cursors.  The translation unit is a sequence of nodes in pre-order; a   *)
(* cursor is an index of it and index TranslationUnit is the root.  A node *)
(* carries the answers of the front end that the code asks for.            *)
(***************************************************************************)
TranslationUnit == 0
None == "None"
NoDescriptor == <<>>   \* the None returned in place of a Type Descriptor

TargetFile == <<"a.h">>
UserHeader == <<"inc", "/", "x.h">>

PlainType ==
    [layers |-> <<>>, base |-> "plain", level |-> 0, index |-> 0,
     num_elements |-> MaxArraySize]
PointerType == [PlainType EXCEPT !.layers = <<"POINTER">>]

\* a namespace at the top level; every other node is given as a change of it
BaseNode ==
    [kind |-> "NAMESPACE", spelling |-> "n", type_spelling |-> <<"n">>,
     file |-> TargetFile, line |-> 1, parent |-> TranslationUnit,
     is_scoped_enum |-> FALSE, access_specifier |-> "INVALID",
     type |-> PlainType, enum_type |-> PlainType,
     is_abstract_record |-> FALSE, is_pod |-> TRUE, enum_value |-> 0,
     result_type |-> PlainType, exception_specification_kind |-> "NONE",
     is_const_method |-> FALSE, is_virtual_method |-> FALSE,
     is_pure_virtual_method |-> FALSE, is_static_method |-> FALSE,
     is_default_method |-> FALSE,
     delete_token |-> "none",   \* "none" | "marked" (= delete) | "elsewhere"
     final_attr |-> FALSE, override_attr |-> FALSE,
     is_default_constructor |-> FALSE, is_copy_constructor |-> FALSE,
     is_move_constructor |-> FALSE, is_converting_constructor |-> FALSE]

interested_CursorKinds ==
    {"NAMESPACE", "CONSTRUCTOR", "DESTRUCTOR", "CXX_METHOD",
     "CONVERSION_FUNCTION", "FUNCTION_TEMPLATE", "CLASS_TEMPLATE", "ENUM_DECL",
     "ENUM_CONSTANT_DECL", "FIELD_DECL", "CLASS_DECL", "STRUCT_DECL",
     "FUNCTION_DECL", "VAR_DECL", "TYPEDEF_DECL", "TYPE_ALIAS_DECL"}
func_like_CursorKind ==
    {"FUNCTION_DECL", "FUNCTION_TEMPLATE", "CONVERSION_FUNCTION", "CONSTRUCTOR",
     "DESTRUCTOR", "CXX_METHOD"}
method_like_CursorKind ==
    {"CXX_METHOD", "CONVERSION_FUNCTION", "CONSTRUCTOR", "DESTRUCTOR"}
class_like_CursorKind == {"CLASS_DECL", "STRUCT_DECL", "CLASS_TEMPLATE"}
val_like_CursorKind == {"VAR_DECL", "FIELD_DECL", "ENUM_CONSTANT_DECL"}
no_return_funcs_CursorKindCursorKind == {"CONSTRUCTOR", "DESTRUCTOR"}
noexcept_ExceptionSpecificationKind == {"DYNAMIC_NONE", "BASIC_NOEXCEPT"}
ExceptionSpecificationKinds ==
    {"NONE", "DYNAMIC_NONE", "DYNAMIC", "BASIC_NOEXCEPT", "COMPUTED_NOEXCEPT",
     "UNEVALUATED"}

\* lines 181-184: lower case, "cxx_" dropped, "_decl" -> "_declaration",
\* "var_" -> "variable_"
_format_syntax_kind(kind) ==
    CASE kind = "NAMESPACE" -> "namespace"
      [] kind = "CONSTRUCTOR" -> "constructor"
      [] kind = "DESTRUCTOR" -> "destructor"
      [] kind = "CXX_METHOD" -> "method"
      [] kind = "CONVERSION_FUNCTION" -> "conversion_function"
      [] kind = "FUNCTION_TEMPLATE" -> "function_template"
      [] kind = "CLASS_TEMPLATE" -> "class_template"
      [] kind = "ENUM_DECL" -> "enum_declaration"
      [] kind = "ENUM_CONSTANT_DECL" -> "enum_constant_declaration"
      [] kind = "FIELD_DECL" -> "field_declaration"
      [] kind = "CLASS_DECL" -> "class_declaration"
      [] kind = "STRUCT_DECL" -> "struct_declaration"
      [] kind = "FUNCTION_DECL" -> "function_declaration"
      [] kind = "VAR_DECL" -> "variable_declaration"
      [] kind = "TYPEDEF_DECL" -> "typedef_declaration"
      [] kind = "TYPE_ALIAS_DECL" -> "type_alias_declaration"
      [] kind = "MACRO_INSTANTIATION" -> "macro_instantiation"
      [] kind = "UNEXPOSED_DECL" -> "unexposed_declaration"

\* lines 114-117: "file:line:col", or "" for a location without file
_format_location(node) ==
    IF node.file = <<>> THEN <<>> ELSE node.file \o <<":", node.line>>

\* lines 144-145
_is_transparent_decl(node) == node.kind = "ENUM_DECL" /\ ~node.is_scoped_enum

\* lines 161-164: the spelling of one level; an anonymous declaration takes
\* the last "::" segment of its type's spelling
HierarchySpelling(node) ==
    IF node.spelling # "" THEN node.spelling ELSE Last(node.type_spelling)

\* lines 166-169 and 173-178: the entry of one level
HierarchyItem(node) ==
    [spelling |-> HierarchySpelling(node),
     transparent |-> _is_transparent_decl(node),
     kind |-> _format_syntax_kind(node.kind),
     location |-> _format_location(node)]

\* a mistaken list.append in place of list.insert(0, ..)
InsertLevelAtEnd(list, item) == Append(list, item)

\* lines 166-169: list.insert(0, item)
InsertLevel(list, item) == <<item>> \o list

\* lines 157-169: the loop, from the node up to the translation unit
RECURSIVE HierarchyLoop(_, _, _)
HierarchyLoop(tree, temp_cursor, list) ==
    LET parent == tree[temp_cursor].parent
    IN IF parent = TranslationUnit THEN list
       ELSE HierarchyLoop(tree, parent, InsertLevel(list, HierarchyItem(tree[parent])))

\* lines 147-179
_collect_hierarchy(tree, cursor) ==
    IF tree[cursor].parent = TranslationUnit
    THEN [hierarchy |-> <<>>, parent_kind |-> "(global)"]
    ELSE LET list == HierarchyLoop(tree, cursor, <<>>)
         IN [hierarchy |-> list, parent_kind |-> Last(list).kind]

\* the kind of the semantic parent of a node
ParentKind(tree, cursor) ==
    IF tree[cursor].parent = TranslationUnit THEN "TRANSLATION_UNIT"
    ELSE tree[tree[cursor].parent].kind

(***************************************************************************)
(* Type Descriptors.  A call that raises yields [error |-> name].          *)
(***************************************************************************)
NoCursor == -1   \* the None handed in for the enclosing node c
ValueError == [error |-> "ValueError"]
AttributeError == [error |-> "AttributeError"]
IsError(r) == "error" \in DOMAIN r

\* lines 464-467: get_size() is positive for a complete type that does not
\* depend on a template parameter, and 0 for an array of no elements
_format_sizeof_type(t) ==
    IF /\ t.base = "plain"
       /\ type_kind(t) # "INCOMPLETEARRAY"
       /\ get_array_size(t) # 0
    THEN "sizeof"
    ELSE None

\* line 187: the syntax kinds whose name holds "template"
TemplateSyntaxKinds == {"class_template", "function_template"}

\* the level counted over every entry of the hierarchy, template or not
FindOwnerAmongAllLevels(hierarchy, template_level) ==
    IF template_level >= Len(hierarchy) THEN NoDescriptor
    ELSE hierarchy[template_level + 1]

\* lines 186-190
_find_hierarchy_item_for_owning_template(hierarchy, template_level) ==
    LET template_hierarchy_list ==
            SelectSeq(hierarchy, LAMBDA item : item.kind \in TemplateSyntaxKinds)
    IN IF template_level >= Len(template_hierarchy_list) THEN NoDescriptor
       ELSE template_hierarchy_list[template_level + 1]

\* lines 216-217: spelling and location of c.semantic_parent; the translation
\* unit is spelled as its file and has no location
SemanticParentItem(tree, c) ==
    IF tree[c].parent = TranslationUnit
    THEN [spelling |-> "a.h", location |-> <<>>]
    ELSE [spelling |-> tree[tree[c].parent].spelling,
          location |-> _format_location(tree[tree[c].parent])]

\* lines 204-208: the coordinates read off "type-parameter-X-Y"
CanonicalSpellingMatches(t) ==
    Head(TypeSpelling(get_canonical(t))) = "type-parameter-"

\* no check of the canonical spelling: a location made up for a type that is
\* not a template type parameter
FormatLocationUnchecked(t, context_hierarchy, tree, c) ==
    IF ~CanonicalSpellingMatches(t)
    THEN [template_spelling |-> "", template_location |-> <<>>,
          param_index |-> 0]
    ELSE LET canonical_spelling == TypeSpelling(get_canonical(t))
             found == _find_hierarchy_item_for_owning_template(
                          context_hierarchy, canonical_spelling[2])
         IN IF found = NoDescriptor /\ c = NoCursor THEN AttributeError
            ELSE LET owning_template ==
                         IF found = NoDescriptor THEN SemanticParentItem(tree, c)
                         ELSE found
                 IN [template_spelling |-> owning_template.spelling,
                     template_location |-> owning_template.location,
                     param_index |-> canonical_spelling[4]]

\* lines 191-227; with c = None line 216 raises AttributeError
_format_type_param_decl_location(t, context_hierarchy, tree, c) ==
    IF ~CanonicalSpellingMatches(t) THEN ValueError
    ELSE LET canonical_spelling == TypeSpelling(get_canonical(t))
             owning_template_level == canonical_spelling[2]
             template_param_pos == canonical_spelling[4]
             found == _find_hierarchy_item_for_owning_template(
                          context_hierarchy, owning_template_level)
         IN IF found = NoDescriptor /\ c = NoCursor THEN AttributeError
            ELSE LET owning_template ==
                         IF found = NoDescriptor THEN SemanticParentItem(tree, c)
                         ELSE found
                 IN [template_spelling |-> owning_template.spelling,
                     template_location |-> owning_template.location,
                     param_index |-> template_param_pos]

\* line 543: c_type.get_declaration().underlying_typedef_type, formatted; an
\* elaborated type is declared by a record, which has no underlying type
AliasUnderlyingSpelling(t) ==
    IF Head(t.layers) = "TYPEDEF"
    THEN _format_type([t EXCEPT !.layers = Tail(t.layers)])
    ELSE <<>>

\* lines 257-274 on a type term: the spellings of the typedef layers from t
\* on, and of the first type under them
RECURSIVE TermAliasChain(_)
TermAliasChain(t) ==
    IF t.layers # <<>> /\ Head(t.layers) = "TYPEDEF"
    THEN <<TypeSpelling(t)>>
             \o TermAliasChain([t EXCEPT !.layers = Tail(t.layers)])
    ELSE <<TypeSpelling(t)>>

TypeFlags(alias, param, array, pointer) ==
    [is_type_alias |-> alias, is_type_param |-> param, is_array |-> array,
     is_pointer |-> pointer]

\* line 588: array_size if array_size > 0 else None.  An int-or-None is kept
\* as a tuple: <<n>> for the number n and <<>> for None
NoSize == <<>>
ArraySize(array_size) == IF array_size > 0 THEN <<array_size>> ELSE NoSize

\* lines 523-617: the type_info of one call, given the descriptor `inner`
\* returned by its recursive call (the branches that recurse) and the
\* type-parameter location
ResOf(t, inner, context_hierarchy, tree, c) ==
    CASE Category(t) = "alias" ->
           TypeFlags(TRUE, FALSE, FALSE, FALSE)
             @@ [type_size |-> _format_sizeof_type(t), is_function |-> FALSE,
                 type_alias_underlying_type |-> AliasUnderlyingSpelling(t),
                 type_alias_chain |-> TermAliasChain(t),
                 canonical_type |-> inner]
      [] Category(t) = "function" ->
           TypeFlags(FALSE, FALSE, FALSE, FALSE)
             @@ [type_size |-> None, is_function |-> TRUE]
      [] Category(t) = "type_parameter" ->
           TypeFlags(FALSE, TRUE, FALSE, FALSE)
             @@ [type_size |-> _format_sizeof_type(t), is_function |-> FALSE,
                 type_param_decl_location |->
                     _format_type_param_decl_location(t, context_hierarchy,
                                                      tree, c)]
      [] Category(t) = "array" ->
           TypeFlags(FALSE, FALSE, TRUE, FALSE)
             @@ [type_size |-> _format_sizeof_type(t), is_function |-> FALSE,
                 array_size |-> ArraySize(get_array_size(t)),
                 array_element_type |-> inner]
      [] Category(t) = "pointer" ->
           TypeFlags(FALSE, FALSE, FALSE, TRUE)
             @@ [type_size |-> _format_sizeof_type(t), is_function |-> FALSE,
                 pointee_type |-> inner]
      [] OTHER ->
           TypeFlags(FALSE, FALSE, FALSE, FALSE)
             @@ [type_size |-> _format_sizeof_type(t)]

\* what one call returns or raises, given what its recursive call returned
\* or raised
TypeInfo(t, inner, context_hierarchy, tree, c) ==
    IF IsError(inner) THEN inner
    ELSE IF Category(t) = "type_parameter"
            /\ IsError(_format_type_param_decl_location(t, context_hierarchy,
                                                        tree, c))
    THEN _format_type_param_decl_location(t, context_hierarchy, tree, c)
    ELSE [spelling |-> _format_type(t),
          type_info |-> ResOf(t, inner, context_hierarchy, tree, c)]

Recurses(t) == Category(t) \in {"alias", "array", "pointer"}

\* lines 519-618
RECURSIVE _collect_type_info(_, _, _, _)
_collect_type_info(c_type, context_hierarchy, tree, c) ==
    TypeInfo(c_type,
             IF Recurses(c_type)
             THEN _collect_type_info(RecursionArg(c_type), context_hierarchy,
                                     tree, c)
             ELSE NoDescriptor,
             context_hierarchy, tree, c)

\* the context_hierarchy and c of the calls of SpecType: those of a node, or
\* the defaults [] and None
ContextHierarchy ==
    IF v_cursor = NoCursor THEN <<>>
    ELSE _collect_hierarchy(ast, v_cursor).hierarchy

\* the outermost call
TypeStart ==
    /\ t_pc = "idle"
    /\ t_stack' = <<t_input>>
    /\ t_pc' = "call"
    /\ UNCHANGED <<t_input, t_res, notTypeVars>>

\* lines 523-549, 577-606: a branch that calls _collect_type_info again
TypeRecurse ==
    /\ t_pc = "call"
    /\ Recurses(Last(t_stack))
    /\ Len(t_stack) < MaxDepth
    /\ t_stack' = Append(t_stack, RecursionArg(Last(t_stack)))
    /\ UNCHANGED <<t_input, t_res, t_pc, notTypeVars>>

\* lines 551-576, 607-617: a leaf, returned at once
TypeLeaf ==
    /\ t_pc = "call"
    /\ ~Recurses(Last(t_stack))
    /\ LET res == TypeInfo(Last(t_stack), NoDescriptor, ContextHierarchy, ast,
                           v_cursor)
       IN /\ ~IsError(res)
          /\ t_res' = res
    /\ t_pc' = "return"
    /\ UNCHANGED <<t_input, t_stack, notTypeVars>>

\* lines 204-206, 216: the type-parameter leaf raises, and the exception
\* leaves every pending call
TypeRaise ==
    /\ t_pc = "call"
    /\ ~Recurses(Last(t_stack))
    /\ LET res == TypeInfo(Last(t_stack), NoDescriptor, ContextHierarchy, ast,
                           v_cursor)
       IN /\ IsError(res)
          /\ t_res' = res
    /\ t_stack' = <<>>
    /\ t_pc' = "raised"
    /\ UNCHANGED <<t_input, notTypeVars>>

\* line 618 of an inner call: the caller wraps the descriptor it got
TypeReturn ==
    /\ t_pc = "return"
    /\ Len(t_stack) > 1
    /\ t_stack' = Front(t_stack)
    /\ t_res' = TypeInfo(Last(t_stack'), t_res, ContextHierarchy, ast, v_cursor)
    /\ UNCHANGED <<t_input, t_pc, notTypeVars>>

\* line 618 of the outermost call
TypeDone ==
    /\ t_pc = "return"
    /\ Len(t_stack) = 1
    /\ t_stack' = <<>>
    /\ t_pc' = "done"
    /\ UNCHANGED <<t_input, t_res, notTypeVars>>

TypeNext ==
    TypeStart \/ TypeRecurse \/ TypeLeaf \/ TypeRaise \/ TypeReturn \/ TypeDone

TypeIdle ==
    /\ t_input = PlainType
    /\ t_stack = <<>>
    /\ t_res = <<>>
    /\ t_pc = "idle"

\* `template <typename T> class Box { T value; };`, and a class in it
BoxTree ==
    << [BaseNode EXCEPT !.kind = "CLASS_TEMPLATE", !.spelling = "Box",
                        !.type_spelling = <<"Box">>],
       [BaseNode EXCEPT !.kind = "FIELD_DECL", !.spelling = "value",
                        !.type_spelling = <<"T">>, !.line = 2, !.parent = 1] >>

\* a call for the type of the field, or one without hierarchy and node
TypeInit ==
    /\ t_input \in Types
    /\ t_stack = <<>>
    /\ t_res = <<>>
    /\ t_pc = "idle"
    /\ ast = BoxTree
    /\ v_cursor \in {NoCursor, 2}
    /\ macro_instant_locs_name_map = <<>>
    /\ symbol = <<>>
    /\ v_pc = "idle"

\* lines 341-356: postfix_str_list
PostfixOf(cursor) ==
    (IF cursor.is_const_method THEN <<"const">> ELSE <<>>)
        \o (IF cursor.final_attr THEN <<"final">> ELSE <<>>)
        \o (IF cursor.override_attr THEN <<"override">> ELSE <<>>)
        \o (IF cursor.is_pure_virtual_method THEN <<"= 0">> ELSE <<>>)
        \o (IF cursor.exception_specification_kind
                  \in noexcept_ExceptionSpecificationKind
            THEN <<"noexcept">> ELSE <<>>)

\* every other kind taken for a throwing one: the unevaluated case is lost
NoThrowOfTwoValued(exception_spec) ==
    IF exception_spec \in noexcept_ExceptionSpecificationKind THEN "True"
    ELSE "False"

\* lines 297, 353-361: is_no_throw_bool_or_None
NoThrowOf(exception_spec) ==
    IF exception_spec \in noexcept_ExceptionSpecificationKind THEN "True"
    ELSE IF exception_spec = "UNEVALUATED" THEN "None"
    ELSE "False"

\* a descriptor of the result type for constructors and destructors too
ReturnTypeOfEveryKind(cursor) ==
    _collect_type_info(cursor.result_type, <<>>, <<>>, NoCursor)

\* lines 333-337: the hierarchy and the node are not handed on
ReturnType(cursor) ==
    IF cursor.kind \in no_return_funcs_CursorKindCursorKind
    THEN NoDescriptor
    ELSE _collect_type_info(cursor.result_type, <<>>, <<>>, NoCursor)

\* lines 338-388, for a node without parameters
FuncProto(cursor, return_type) ==
    [proto_str |->
         (IF cursor.is_virtual_method THEN <<"virtual">> ELSE <<>>)
             \o (IF return_type # NoDescriptor
                    /\ cursor.kind # "CONVERSION_FUNCTION"
                 THEN return_type.spelling ELSE <<>>)
             \o <<cursor.spelling>> \o <<"(", ")">> \o PostfixOf(cursor),
     \* lines 373-377: the same string, unless it is longer than 75
     \* characters; no prototype of the model is
     proto_str_pretty |->
         (IF cursor.is_virtual_method THEN <<"virtual">> ELSE <<>>)
             \o (IF return_type # NoDescriptor
                    /\ cursor.kind # "CONVERSION_FUNCTION"
                 THEN return_type.spelling ELSE <<>>)
             \o <<cursor.spelling>> \o <<"(", ")">> \o PostfixOf(cursor),
     template_params_list |-> <<>>,
     args_list |-> <<>>,
     return_type |-> return_type,
     is_final |-> cursor.final_attr,
     is_override |-> cursor.override_attr,
     is_pure_virtual |-> cursor.is_pure_virtual_method,
     is_no_throw_bool_or_None |->
         NoThrowOf(cursor.exception_specification_kind)]

\* lines 287-388, when line 337 does not raise
_format_func_proto(cursor) == FuncProto(cursor, ReturnType(cursor))

\* lines 455-462: a keyword token "delete" anywhere in the node's tokens
is_deleted_method(cursor) == cursor.delete_token # "none"

\* the name of some recorded site, whatever its location
MacroOfAnySite(map, location) ==
    IF DOMAIN map # {} THEN map[CHOOSE l \in DOMAIN map : TRUE] ELSE None

\* line 638: dict.get
MacroOf(map, location) ==
    IF location \in DOMAIN map THEN map[location] ELSE None

\* lines 119-143: the source text of the node's extent, here of its line
_get_text_range(cursor) == <<"text of", cursor.file, ":", cursor.line>>

\* lines 638-669, given the tuple of line 636 and the macro of line 638
FuncLikeFieldsOf(cursor, func_proto_tuple, from_macro) ==
    [from_macro |-> from_macro,
     declaration |->
         IF from_macro # None THEN _get_text_range(cursor)
         ELSE func_proto_tuple.proto_str \o <<";">>,
     declaration_pretty |->
         IF from_macro # None THEN _get_text_range(cursor)
         ELSE func_proto_tuple.proto_str_pretty \o <<";">>,
     is_template |-> func_proto_tuple.template_params_list # <<>>,
     template_args_list |-> func_proto_tuple.template_params_list,
     args_list |-> func_proto_tuple.args_list,
     return_type |-> func_proto_tuple.return_type,
     specifier |->
         (IF func_proto_tuple.is_final THEN <<"final">> ELSE <<>>)
             \o (IF func_proto_tuple.is_override THEN <<"override">> ELSE <<>>)
             \o (IF func_proto_tuple.is_pure_virtual THEN <<"= 0">> ELSE <<>>)
             \o (IF func_proto_tuple.is_no_throw_bool_or_None = "True"
                 THEN <<"noexcept">> ELSE <<>>),
     no_throw_guarantee |->
         IF func_proto_tuple.is_no_throw_bool_or_None = "True" THEN "guaranteed"
         ELSE IF func_proto_tuple.is_no_throw_bool_or_None = "None"
              THEN "unevaluated"
         ELSE "not_guaranteed"]

\* lines 635-669
FuncLikeFields(cursor, map) ==
    FuncLikeFieldsOf(cursor, _format_func_proto(cursor),
                     MacroOf(map, _format_location(cursor)))

\* lines 682-686
MemberFields(tree, c) ==
    IF ParentKind(tree, c) \in class_like_CursorKind
    THEN [access |-> tree[c].access_specifier, is_member |-> TRUE]
    ELSE [is_member |-> FALSE]

IsMethodLike(tree, c) ==
    \/ tree[c].kind \in method_like_CursorKind
    \/ /\ tree[c].kind = "FUNCTION_TEMPLATE"
       /\ ParentKind(tree, c) \in class_like_CursorKind

\* the virtual flag skipped for a pure virtual method
MethodPropertyPureOnly(cursor) ==
    (IF cursor.is_static_method THEN <<"static">> ELSE <<>>)
        \o (IF cursor.is_const_method THEN <<"const">> ELSE <<>>)
        \o (IF cursor.is_virtual_method /\ ~cursor.is_pure_virtual_method
            THEN <<"virtual">> ELSE <<>>)
        \o (IF cursor.is_pure_virtual_method THEN <<"pure_virtual">> ELSE <<>>)
        \o (IF cursor.is_default_method THEN <<"default">> ELSE <<>>)
        \o (IF is_deleted_method(cursor) THEN <<"delete">> ELSE <<>>)

\* lines 705-718
MethodProperty(cursor) ==
    (IF cursor.is_static_method THEN <<"static">> ELSE <<>>)
        \o (IF cursor.is_const_method THEN <<"const">> ELSE <<>>)
        \o (IF cursor.is_virtual_method THEN <<"virtual">> ELSE <<>>)
        \o (IF cursor.is_pure_virtual_method THEN <<"pure_virtual">> ELSE <<>>)
        \o (IF cursor.is_default_method THEN <<"default">> ELSE <<>>)
        \o (IF is_deleted_method(cursor) THEN <<"delete">> ELSE <<>>)

\* lines 702-718
MethodFields(cursor) ==
    [is_deleted |-> is_deleted_method(cursor),
     method_property |-> MethodProperty(cursor)]

\* the copy flag taken from the move predicate
ConstructorPropertyCopyFromMove(cursor) ==
    (IF is_deleted_method(cursor) THEN <<"delete">> ELSE <<>>)
        \o (IF cursor.is_default_constructor THEN <<"default">> ELSE <<>>)
        \o (IF cursor.is_move_constructor THEN <<"copy">> ELSE <<>>)
        \o (IF cursor.is_move_constructor THEN <<"move">> ELSE <<>>)
        \o (IF cursor.is_converting_constructor THEN <<"converting">> ELSE <<>>)

\* lines 720-731
ConstructorProperty(cursor) ==
    (IF is_deleted_method(cursor) THEN <<"delete">> ELSE <<>>)
        \o (IF cursor.is_default_constructor THEN <<"default">> ELSE <<>>)
        \o (IF cursor.is_copy_constructor THEN <<"copy">> ELSE <<>>)
        \o (IF cursor.is_move_constructor THEN <<"move">> ELSE <<>>)
        \o (IF cursor.is_converting_constructor THEN <<"converting">> ELSE <<>>)

\* lines 733-743, for a destructor that is not deleted
DestructorProperty(cursor) ==
    (IF cursor.is_default_method THEN <<"default">> ELSE <<>>)
        \o (IF cursor.is_virtual_method THEN <<"virtual">> ELSE <<>>)
        \o (IF cursor.is_pure_virtual_method THEN <<"pure_virtual">> ELSE <<>>)

\* lines 670-681, for a class without template parameters, bases and final
ClassLikeFields(cursor) ==
    [declaration |-> <<"class", cursor.spelling, ";">>,
     is_template |-> FALSE,
     template_args_list |-> <<>>,
     specifier |-> <<>>,
     base_clause |-> <<>>,
     is_abstract |-> cursor.is_abstract_record,
     size |-> _format_sizeof_type(cursor.type)]

HasTypeField(cursor) ==
    cursor.kind \in val_like_CursorKind \cup {"CLASS_DECL", "STRUCT_DECL"}

\* line 691
NodeType(tree, c) ==
    _collect_type_info(tree[c].type, _collect_hierarchy(tree, c).hierarchy,
                       tree, c)

\* lines 687-693, when line 691 does not raise
TypeAndSize(type) == [type |-> type, size |-> type.type_info.type_size]
ValueFields(tree, c) ==
    [POD |-> tree[c].is_pod] @@ TypeAndSize(NodeType(tree, c))

IsTypeAliasDecl(cursor) == cursor.kind \in {"TYPEDEF_DECL", "TYPE_ALIAS_DECL"}

\* lines 694-701
TypeAliasFields(cursor) ==
    [type_alias_underlying_type |-> AliasUnderlyingSpelling(cursor.type),
     type_alias_chain |-> TermAliasChain(cursor.type),
     canonical_type |-> _format_type(get_canonical(cursor.type))]

\* lines 744-749
StaticMemberFields(tree, c) ==
    IF tree[c].kind = "FIELD_DECL" THEN [static_member |-> FALSE]
    ELSE IF ParentKind(tree, c) \in class_like_CursorKind
            /\ tree[c].kind = "VAR_DECL"
    THEN [static_member |-> TRUE]
    ELSE <<>>

\* lines 752, 755
EnumType(tree, c) ==
    _collect_type_info(tree[c].enum_type,
                       _collect_hierarchy(tree, c).hierarchy, tree, c)

\* lines 750-757
EnumFields(tree, c) ==
    LET enum_underlying_type == EnumType(tree, c)
    IN IF tree[c].kind = "ENUM_DECL"
       THEN [scoped_enum |-> tree[c].is_scoped_enum,
             enum_underlying_type |-> enum_underlying_type]
       ELSE IF tree[c].kind = "ENUM_CONSTANT_DECL"
       THEN [enum_underlying_type |-> enum_underlying_type,
             enum_value |-> tree[c].enum_value]
       ELSE <<>>

\* the exception that leaves _visit_cursor, or None: the first of
\*   line 636: the return type's descriptor raises;
\*   line 691: the descriptor of the node's type raises;
\*   lines 735-736: in the destructor branch the list constructor_property
\*     was never bound, so the append to it raises NameError;
\*   lines 752, 755: the descriptor of the enum's type raises
ErrorOf(res) == IF IsError(res) THEN res.error ELSE None
FirstError(of_return_type, of_type, of_destructor, of_enum_type) ==
    IF of_return_type # None THEN of_return_type
    ELSE IF of_type # None THEN of_type
    ELSE IF of_destructor # None THEN of_destructor
    ELSE of_enum_type
VisitError(tree, c) ==
    FirstError(IF tree[c].kind \in func_like_CursorKind
               THEN ErrorOf(ReturnType(tree[c])) ELSE None,
               IF HasTypeField(tree[c]) THEN ErrorOf(NodeType(tree, c))
               ELSE None,
               IF tree[c].kind = "DESTRUCTOR" /\ is_deleted_method(tree[c])
               THEN "NameError" ELSE None,
               IF tree[c].kind \in {"ENUM_DECL", "ENUM_CONSTANT_DECL"}
               THEN ErrorOf(EnumType(tree, c)) ELSE None)

VisitRaises(tree, c) == VisitError(tree, c) # None

\* lines 621-758, when no error is raised: the symbol dict.  A later
\* assignment to a key replaces an earlier one (size).
_visit_cursor(tree, c, map) ==
    LET cursor == tree[c]
        hierarchy_info == _collect_hierarchy(tree, c)
    IN [spelling |-> cursor.spelling,
        hierarchy |-> hierarchy_info.hierarchy,
        parent_kind |-> hierarchy_info.parent_kind,
        location |-> _format_location(cursor),
        kind |-> _format_syntax_kind(cursor.kind)]
       @@ (IF cursor.kind \in func_like_CursorKind
           THEN FuncLikeFields(cursor, map) ELSE <<>>)
       @@ (IF HasTypeField(cursor) THEN ValueFields(tree, c) ELSE <<>>)
       @@ (IF cursor.kind \in class_like_CursorKind
           THEN ClassLikeFields(cursor) ELSE <<>>)
       @@ MemberFields(tree, c)
       @@ (IF IsTypeAliasDecl(cursor) THEN TypeAliasFields(cursor) ELSE <<>>)
       @@ (IF IsMethodLike(tree, c) THEN MethodFields(cursor) ELSE <<>>)
       @@ (IF cursor.kind = "CONSTRUCTOR"
           THEN [constructor_property |-> ConstructorProperty(cursor)]
           ELSE <<>>)
       @@ (IF cursor.kind = "DESTRUCTOR"
           THEN [destructor_property |-> DestructorProperty(cursor)]
           ELSE <<>>)
       @@ StaticMemberFields(tree, c)
       @@ EnumFields(tree, c)

(***************************************************************************)
(* The trees handed to _visit_cursor.                                      *)
(***************************************************************************)
\* declarations that nest: scopes, an anonymous struct, a field, an enumerator
NestingShapes ==
    { BaseNode,
      [BaseNode EXCEPT !.kind = "CLASS_DECL", !.spelling = "A",
                       !.type_spelling = <<"A">>],
      [BaseNode EXCEPT !.kind = "CLASS_TEMPLATE", !.spelling = "B",
                       !.type_spelling = <<"B">>],
      [BaseNode EXCEPT !.kind = "STRUCT_DECL", !.spelling = "",
                       !.type_spelling = <<"n", "S_t">>],
      [BaseNode EXCEPT !.kind = "ENUM_DECL", !.spelling = "E",
                       !.type_spelling = <<"E">>],
      [BaseNode EXCEPT !.kind = "ENUM_DECL", !.spelling = "F",
                       !.type_spelling = <<"F">>, !.is_scoped_enum = TRUE],
      [BaseNode EXCEPT !.kind = "ENUM_CONSTANT_DECL", !.spelling = "e",
                       !.type_spelling = <<"E">>],
      [BaseNode EXCEPT !.kind = "FIELD_DECL", !.spelling = "x",
                       !.type_spelling = <<"int">>,
                       !.access_specifier = "PUBLIC"] }

\* what the language lets be declared inside what
MayNest(parent_kind, kind) ==
    CASE parent_kind = "TRANSLATION_UNIT" ->
             kind \notin {"ENUM_CONSTANT_DECL", "FIELD_DECL"}
      [] parent_kind = "NAMESPACE" ->
             kind \notin {"ENUM_CONSTANT_DECL", "FIELD_DECL"}
      [] parent_kind \in class_like_CursorKind ->
             kind \notin {"ENUM_CONSTANT_DECL", "NAMESPACE"}
      [] parent_kind = "ENUM_DECL" -> kind = "ENUM_CONSTANT_DECL"
      [] OTHER -> FALSE

KindAt(tree, i) == IF i = TranslationUnit THEN "TRANSLATION_UNIT" ELSE tree[i].kind

\* the trees of n nodes: node i is declared on line i, inside an earlier node
RECURSIVE NestingTrees(_)
NestingTrees(n) ==
    IF n = 0 THEN {<<>>}
    ELSE { Append(x[1], [x[2] EXCEPT !.line = n, !.parent = x[3]]) :
             x \in { y \in NestingTrees(n - 1) \X NestingShapes \X (0..(n - 1)) :
                       MayNest(KindAt(y[1], y[3]), y[2].kind) } }

ClassA ==
    [BaseNode EXCEPT !.kind = "CLASS_DECL", !.spelling = "A",
                     !.type_spelling = <<"A">>]
Function ==
    [BaseNode EXCEPT !.spelling = "f", !.type_spelling = <<"int", "(", ")">>,
                     !.line = 2]

\* static, or const or not and one of plain, virtual, pure virtual; final and
\* override go with virtual
MethodCursors ==
    { [Function EXCEPT !.kind = "CXX_METHOD", !.parent = 1,
                       !.access_specifier = "PUBLIC",
                       !.exception_specification_kind = e,
                       !.is_static_method = q[1], !.is_const_method = q[2],
                       !.is_virtual_method = q[3],
                       !.is_pure_virtual_method = q[4],
                       !.final_attr = q[5], !.override_attr = q[6],
                       !.is_default_method = d, !.delete_token = k] :
        e \in ExceptionSpecificationKinds, d \in BOOLEAN,
        k \in {"none", "marked", "elsewhere"},
        q \in { r \in BOOLEAN \X BOOLEAN \X BOOLEAN \X BOOLEAN \X BOOLEAN \X BOOLEAN :
                  /\ r[1] => (~r[2] /\ ~r[3])
                  /\ r[4] => r[3]
                  /\ (r[5] \/ r[6]) => r[3] } }

ConstructorCursors ==
    { [Function EXCEPT !.kind = "CONSTRUCTOR", !.spelling = "A", !.parent = 1,
                       !.access_specifier = "PUBLIC",
                       !.exception_specification_kind = e,
                       !.is_default_method = d, !.delete_token = k,
                       !.is_default_constructor = q[1],
                       !.is_copy_constructor = q[2],
                       !.is_move_constructor = q[3],
                       !.is_converting_constructor = q[4]] :
        e \in {"NONE", "BASIC_NOEXCEPT", "UNEVALUATED"}, d \in BOOLEAN,
        k \in {"none", "marked"},
        q \in BOOLEAN \X BOOLEAN \X BOOLEAN \X BOOLEAN }

DestructorCursors ==
    { [Function EXCEPT !.kind = "DESTRUCTOR", !.spelling = "~A", !.parent = 1,
                       !.access_specifier = "PUBLIC",
                       !.exception_specification_kind = e,
                       !.is_default_method = d, !.delete_token = k,
                       !.is_virtual_method = q[1],
                       !.is_pure_virtual_method = q[2]] :
        e \in {"NONE", "BASIC_NOEXCEPT", "UNEVALUATED"}, d \in BOOLEAN,
        k \in {"none", "marked"},
        q \in { r \in BOOLEAN \X BOOLEAN : r[2] => r[1] } }

ConversionCursors ==
    { [Function EXCEPT !.kind = "CONVERSION_FUNCTION", !.spelling = "operator int",
                       !.parent = 1, !.access_specifier = "PUBLIC",
                       !.exception_specification_kind = e,
                       !.is_const_method = q] :
        e \in ExceptionSpecificationKinds, q \in BOOLEAN }

\* a function or function template, in a class (parent 1) or not
FunctionCursors ==
    { [Function EXCEPT !.kind = k, !.parent = 1,
                       !.exception_specification_kind = e, !.result_type = t] :
        k \in {"FUNCTION_DECL", "FUNCTION_TEMPLATE"},
        e \in ExceptionSpecificationKinds, t \in {PlainType, PointerType} }

\* a function-like node in class A, or a function in namespace n
FunctionTrees ==
    { <<ClassA, c>> :
        c \in MethodCursors \cup ConstructorCursors \cup DestructorCursors
                \cup ConversionCursors
                \cup { f \in FunctionCursors : f.kind = "FUNCTION_TEMPLATE" } }
    \cup { <<BaseNode, c>> : c \in FunctionCursors }
    \cup { <<[c EXCEPT !.parent = TranslationUnit, !.line = 1]>> :
             c \in FunctionCursors }

\* the macro expansion sites recorded when the node is visited: none, or one
\* at the location of the last node
MacroMaps(tree) ==
    { <<>>, [l \in {_format_location(Last(tree))} |-> "DECLARE"] }

\* types that name a template type parameter, or depend on one
TypeParameter(level, index) ==
    [PlainType EXCEPT !.base = "type_parameter", !.level = level,
                      !.index = index]
DependentType == [PlainType EXCEPT !.base = "dependent"]
TemplateTypes ==
    { [t EXCEPT !.layers = l] :
        t \in {TypeParameter(0, 0), TypeParameter(0, 1), TypeParameter(1, 1),
               DependentType, PlainType},
        l \in {<<>>, <<"POINTER">>, <<"TYPEDEF">>, <<"CONSTANTARRAY">>,
               <<"TYPEDEF", "POINTER">>} }

ClassTemplate(name, parent) ==
    [BaseNode EXCEPT !.kind = "CLASS_TEMPLATE", !.spelling = name,
                     !.type_spelling = <<name>>, !.parent = parent]
Field(type, line, parent) ==
    [BaseNode EXCEPT !.kind = "FIELD_DECL", !.spelling = "value",
                     !.type_spelling = TypeSpelling(type), !.type = type,
                     !.line = line, !.parent = parent,
                     !.access_specifier = "PUBLIC"]
\* a field of a class template; a field of a class template in a class in a
\* class template; a function template and a method of a class template,
\* by their return type; an alias declaration in a class template
TemplateTrees ==
    { <<ClassTemplate("Box", TranslationUnit), Field(t, 2, 1)>> :
        t \in TemplateTypes }
    \cup { <<ClassTemplate("A", TranslationUnit),
             [ClassA EXCEPT !.spelling = "B", !.line = 2, !.parent = 1],
             [ClassTemplate("C", 2) EXCEPT !.line = 3],
             Field(t, 4, 3)>> : t \in TemplateTypes }
    \cup { <<[Function EXCEPT !.kind = "FUNCTION_TEMPLATE", !.line = 1,
                              !.result_type = t]>> : t \in TemplateTypes }
    \cup { <<ClassTemplate("Box", TranslationUnit),
             [Function EXCEPT !.kind = "CXX_METHOD", !.parent = 1,
                              !.access_specifier = "PUBLIC",
                              !.result_type = t]>> : t \in TemplateTypes }
    \cup { <<ClassTemplate("Box", TranslationUnit),
             [BaseNode EXCEPT !.kind = "TYPE_ALIAS_DECL", !.spelling = "UU",
                              !.type = [t EXCEPT !.layers = <<"TYPEDEF">> \o @],
                              !.line = 2, !.parent = 1,
                              !.access_specifier = "PUBLIC"]>> :
            t \in TemplateTypes }

VisitIdle ==
    /\ ast = <<>>
    /\ macro_instant_locs_name_map = <<>>
    /\ v_cursor = TranslationUnit
    /\ symbol = <<>>
    /\ v_pc = "idle"

VisitInit ==
    /\ \/ /\ ast \in UNION { NestingTrees(n) : n \in 1..MaxNodes }
          /\ macro_instant_locs_name_map = <<>>
       \/ /\ ast \in FunctionTrees
          /\ macro_instant_locs_name_map \in MacroMaps(ast)
       \/ /\ ast \in TemplateTrees
          /\ macro_instant_locs_name_map = <<>>
    /\ v_cursor = TranslationUnit
    /\ symbol = <<>>
    /\ v_pc = "idle"

\* one call of _visit_cursor that returns
VisitCursor ==
    /\ v_pc = "idle"
    /\ \E c \in 1..Len(ast) :
          /\ ~VisitRaises(ast, c)
          /\ v_cursor' = c
          /\ symbol' = _visit_cursor(ast, c, macro_instant_locs_name_map)
    /\ v_pc' = "done"
    /\ UNCHANGED <<ast, macro_instant_locs_name_map, notVisitVars>>

\* one call of _visit_cursor that raises
VisitCursorRaises ==
    /\ v_pc = "idle"
    /\ \E c \in 1..Len(ast) :
          /\ VisitRaises(ast, c)
          /\ v_cursor' = c
    /\ v_pc' = "raised"
    /\ UNCHANGED <<ast, macro_instant_locs_name_map, symbol, notVisitVars>>

VisitNext == VisitCursor \/ VisitCursorRaises

(***************************************************************************)
(* The traversal: _traverse_ast.  A file name or directory is a sequence   *)
(* of tokens, so that one name can be a prefix of another.                 *)
(***************************************************************************)
IncDir == <<"inc">>
Inc2Dir == <<"inc", "2">>
SysDir1 == <<"/", "Library", "/", "c++">>
SysDir2 == <<"/", "usr", "/", "include">>
Inc2Header == <<"inc", "2", "/", "y.h">>
SysHeader == <<"/", "usr", "/", "include", "/", "s.h">>
Cwd == <<"/", "w">>

startswith(str, prefix) ==
    Len(prefix) <= Len(str) /\ SubSeq(str, 1, Len(prefix)) = prefix

\* os.path.abspath: a relative name is taken from the working directory
abspath(path) ==
    IF path # <<>> /\ Head(path) = "/" THEN path ELSE Cwd \o <<"/">> \o path

\* lines 811-817
_is_in_paths(filename, path_list) ==
    \E k \in 1..Len(path_list) :
        startswith(abspath(filename), abspath(path_list[k]))

\* lines 771-772
RecordsMacro(node, target_filename, paths) ==
    /\ node.kind = "MACRO_INSTANTIATION"
    /\ node.file = target_filename \/ _is_in_paths(node.file, paths)

\* line 777: map[location] = spelling
MapAfter(map, node, target_filename, paths) ==
    IF RecordsMacro(node, target_filename, paths)
    THEN [l \in DOMAIN map \cup {_format_location(node)} |->
            IF l = _format_location(node) THEN node.spelling ELSE map[l]]
    ELSE map

\* the check of line 782 left out
SkippedButAnonymous(node, target_filename) ==
    \/ node.file # target_filename
    \/ node.kind \notin interested_CursorKinds

\* lines 778-783: the three `continue`
Skipped(node, target_filename) ==
    \/ node.file # target_filename
    \/ node.kind \notin interested_CursorKinds
    \/ node.spelling = ""

\* the increment forgotten
CountAfterVisitStale(n) == n

\* line 786
CountAfterVisit(n) == n + 1

\* line 787: "%s#%d"
SymbolId(target_filename, n) == <<target_filename, "#", n>>

WalkStart == [map |-> <<>>, symbols |-> <<>>, count |-> 0, raised |-> FALSE]

\* lines 769-789: the body of the loop for node i
WalkStep(st, tree, i, target_filename, paths) ==
    LET map == MapAfter(st.map, tree[i], target_filename, paths)
    IN IF Skipped(tree[i], target_filename) THEN [st EXCEPT !.map = map]
       ELSE IF VisitRaises(tree, i) THEN [st EXCEPT !.map = map, !.raised = TRUE]
       ELSE [map |-> map,
             symbols |->
                 Append(st.symbols,
                        _visit_cursor(tree, i, map)
                            @@ [id |-> SymbolId(target_filename,
                                                CountAfterVisit(st.count))]),
             count |-> CountAfterVisit(st.count),
             raised |-> FALSE]

\* lines 764-793: the whole loop, from node i on
RECURSIVE WalkFrom(_, _, _, _, _)
WalkFrom(st, tree, i, target_filename, paths) ==
    IF i > Len(tree) \/ st.raised THEN st
    ELSE WalkFrom(WalkStep(st, tree, i, target_filename, paths), tree, i + 1,
                  target_filename, paths)

_traverse_ast(tree, target_filename, paths) ==
    WalkFrom(WalkStart, tree, 1, target_filename, paths)

WalkState ==
    [map |-> macro_instant_locs_name_map, symbols |-> symbols, count |-> count,
     raised |-> FALSE]

\* one iteration of the loop: lines 769-789
TraverseNode ==
    /\ tr_pc = "walk"
    /\ pos <= Len(ast)
    /\ LET st == WalkStep(WalkState, ast, pos, TargetFile, user_include_paths)
       IN /\ macro_instant_locs_name_map' = st.map
          /\ symbols' = st.symbols
          /\ count' = st.count
          /\ tr_pc' = IF st.raised THEN "raised" ELSE "walk"
    /\ pos' = pos + 1
    /\ UNCHANGED <<ast, v_cursor, symbol, v_pc, user_include_paths,
                   notTraverseVars>>

\* lines 778-783: the node is skipped
TraverseSkip ==
    /\ pos <= Len(ast) /\ Skipped(ast[pos], TargetFile)
    /\ TraverseNode

\* lines 785-789: the node is visited and its symbol appended
TraverseEmit ==
    /\ pos <= Len(ast) /\ ~Skipped(ast[pos], TargetFile)
    /\ ~VisitRaises(ast, pos)
    /\ TraverseNode

\* line 785, when _visit_cursor raises
TraverseRaise ==
    /\ pos <= Len(ast) /\ ~Skipped(ast[pos], TargetFile)
    /\ VisitRaises(ast, pos)
    /\ TraverseNode

\* line 793
TraverseReturn ==
    /\ tr_pc = "walk"
    /\ pos > Len(ast)
    /\ tr_pc' = "returned"
    /\ UNCHANGED <<visitVars, user_include_paths, pos, count, symbols,
                   notTraverseVars>>

TraverseNext == TraverseSkip \/ TraverseEmit \/ TraverseRaise \/ TraverseReturn

\* the nodes of a walk: declarations in the target file and in a header,
\* an anonymous one, one of a kind that is not extracted, a deleted
\* destructor, a function template that returns its type parameter, and
\* macro expansion sites at the line of a neighbour
Macro ==
    [BaseNode EXCEPT !.kind = "MACRO_INSTANTIATION", !.spelling = "DECLARE",
                     !.type_spelling = <<>>]
DeletedDestructor ==
    [Function EXCEPT !.kind = "DESTRUCTOR", !.spelling = "~A",
                     !.access_specifier = "PUBLIC", !.delete_token = "marked"]
WalkShapes(n) ==
    { [Function EXCEPT !.kind = "FUNCTION_DECL", !.line = n],
      [Function EXCEPT !.kind = "FUNCTION_DECL", !.line = n, !.file = UserHeader],
      [ClassA EXCEPT !.line = n],
      [ClassA EXCEPT !.line = n, !.kind = "STRUCT_DECL", !.spelling = ""],
      [BaseNode EXCEPT !.line = n, !.kind = "UNEXPOSED_DECL", !.spelling = "u"],
      [DeletedDestructor EXCEPT !.line = n],
      [Function EXCEPT !.kind = "FUNCTION_TEMPLATE", !.line = n,
                       !.result_type = TypeParameter(0, 0)] }
    \cup { [Macro EXCEPT !.file = f, !.line = l] :
             f \in {TargetFile, UserHeader, Inc2Header},
             l \in {n - 1, n + 1} \ {0} }

MayFollow(tree, node, parent) ==
    CASE node.kind = "MACRO_INSTANTIATION" -> parent = TranslationUnit
      [] node.kind = "DESTRUCTOR" ->
             KindAt(tree, parent) \in class_like_CursorKind
      [] node.kind \in {"FUNCTION_DECL", "FUNCTION_TEMPLATE"} ->
             parent = TranslationUnit
      [] OTHER -> KindAt(tree, parent) \in class_like_CursorKind
                     \/ parent = TranslationUnit

\* the walks of n nodes: node i lies on line i, at the top level or inside
\* the node before it
RECURSIVE WalkTrees(_)
WalkTrees(n) ==
    IF n = 0 THEN {<<>>}
    ELSE { Append(x[1], [x[2] EXCEPT !.parent = x[3]]) :
             x \in { y \in WalkTrees(n - 1) \X WalkShapes(n) \X {0, n - 1} :
                       MayFollow(y[1], y[2], y[3]) } }

WalkIdle ==
    /\ user_include_paths = <<>>
    /\ pos = 1
    /\ count = 0
    /\ symbols = <<>>
    /\ tr_pc = "idle"

WalkInit ==
    /\ ast \in UNION { WalkTrees(n) : n \in 1..MaxWalk }
    /\ macro_instant_locs_name_map = <<>>
    /\ v_cursor = TranslationUnit
    /\ symbol = <<>>
    /\ v_pc = "idle"
    /\ user_include_paths \in {<<>>, <<IncDir>>}
    /\ pos = 1
    /\ count = 0
    /\ symbols = <<>>
    /\ tr_pc = "walk"

(***************************************************************************)
(* The entry point: get and _get_symbols.                                  *)
(***************************************************************************)
\* lines 54-58, as the module is loaded
InitialSysIncludePaths == <<SysDir1, SysDir2>>

\* line 940: ','.join(user_include_path_list)
RECURSIVE join(_)
join(list) ==
    IF list = <<>> THEN <<>>
    ELSE IF Len(list) = 1 THEN list[1]
    ELSE list[1] \o <<",">> \o join(Tail(list))

\* str.split(','): the pieces between the commas, `cur` the piece being read
RECURSIVE split(_, _)
split(str, cur) ==
    IF str = <<>> THEN <<cur>>
    ELSE IF Head(str) = "," THEN <<cur>> \o split(Tail(str), <<>>)
    ELSE split(Tail(str), Append(cur, Head(str)))

\* str.strip()
RECURSIVE strip(_)
strip(item) ==
    IF item # <<>> /\ Head(item) = " " THEN strip(Tail(item))
    ELSE IF item # <<>> /\ Last(item) = " " THEN strip(Front(item))
    ELSE item

\* lines 821-825
UserIncludePaths(user_include_paths_str) ==
    IF user_include_paths_str # <<>>
    THEN [k \in 1..Len(split(user_include_paths_str, <<>>)) |->
            strip(split(user_include_paths_str, <<>>)[k])]
    ELSE <<>>

\* lines 820, 825: include_paths is the list object SYS_INCLUDE_PATHS itself,
\* and += extends that object in place
IncludePaths(sys_paths, user_paths) == sys_paths \o user_paths

\* content with one path that exists
VerifyAnyPathFound(include_paths, dirs) ==
    \E k \in 1..Len(include_paths) : include_paths[k] \in dirs

\* lines 799-809
_verify_include_paths(include_paths, dirs) ==
    \A k \in 1..Len(include_paths) : include_paths[k] \in dirs

\* lines 831-834
ClangArgs(include_paths) ==
    << <<"-x">>, <<"c++">>, <<"--std=c++14">>, <<"-isysroot">>, <<"/">> >>
        \o [k \in 1..Len(include_paths) |-> <<"-I">> \o include_paths[k]]

\* line 860: str(diagnostic)
DiagnosticStr(d) == <<d.file, ":", d.line, ":", d.text>>

\* lines 866-877
IncludeListed(inc, target_filename, user_paths) ==
    inc.file = target_filename \/ _is_in_paths(inc.file, user_paths)
IncludeItem(inc) ==
    [file |-> inc.include, included_at |-> _format_location(inc),
     depth |-> inc.depth]
RECURSIVE IncludeList(_, _, _)
IncludeList(incs, target_filename, user_paths) ==
    IF incs = <<>> THEN <<>>
    ELSE (IF IncludeListed(Head(incs), target_filename, user_paths)
          THEN <<IncludeItem(Head(incs))>> ELSE <<>>)
         \o IncludeList(Tail(incs), target_filename, user_paths)

\* what a caller observes of one call: how the engine was entered, how the
\* call ended, the exception that escaped, what it was given, whether index.parse was called, what the
\* front end was given, and the result dict of lines 883-889
CallRecord(outcome, error, list, parsed, args, syms, incs, errs) ==
    [entry |-> entry, outcome |-> outcome, error |-> error,
     user_include_path_list |-> list, parsed |-> parsed, clang_args |-> args,
     symbols |-> syms, includes |-> incs, errors |-> errs]

\* the exception that leaves the loop of lines 769-789: that of the first
\* visited node whose visit raises
TraversalError(tree, target_filename) ==
    LET raising == { i \in 1..Len(tree) :
                       ~Skipped(tree[i], target_filename) /\ VisitRaises(tree, i) }
    IN IF raising = {} THEN None
       ELSE VisitError(tree, CHOOSE i \in raising : \A j \in raising : i <= j)

\* the lists a caller passes
UserIncludePathLists == {<<>>, <<IncDir>>, <<Inc2Dir>>}

\* lines 960-969: the command line runs the engine once, and only on a file
\* that exists; get (lines 938-942) makes no such check
MayEnter ==
    /\ pc = "ready"
    /\ Len(results) < (IF entry = "main" THEN 1 ELSE MaxCalls)
    /\ entry = "main" => target_is_file

\* lines 966-968: the command line on a missing file: sys.exit(1)
MainExits ==
    /\ entry = "main"
    /\ pc = "ready"
    /\ results = <<>>
    /\ ~target_is_file
    /\ results' = Append(results,
                         CallRecord("exit", None, <<>>, FALSE, <<>>, <<>>, <<>>, <<>>))
    /\ UNCHANGED <<chainVars, typeVars, visitVars, walkVars, user_path_list,
                   SYS_INCLUDE_PATHS, fs_dirs, target_is_file, entry,
                   tu_diagnostics, tu_includes, clang_args, pc>>

\* lines 938-942 or 971-974, and 819-835, all include paths found
GetStart ==
    /\ MayEnter
    /\ \E list \in UserIncludePathLists :
          LET user == UserIncludePaths(join(list))
              include_paths == IF join(list) # <<>>
                               THEN IncludePaths(SYS_INCLUDE_PATHS, user)
                               ELSE SYS_INCLUDE_PATHS
          IN /\ _verify_include_paths(include_paths, fs_dirs)
             /\ user_path_list' = list
             /\ user_include_paths' = user
             /\ SYS_INCLUDE_PATHS' = include_paths
             /\ clang_args' = ClangArgs(include_paths)
             /\ pc' = "parse"
    /\ UNCHANGED <<chainVars, typeVars, visitVars, pos, count, symbols, tr_pc,
                   fs_dirs, target_is_file, entry, tu_diagnostics, tu_includes,
                   results>>

\* lines 938-942 or 971-974, and 819-827, an include path not found:
\* sys.exit(1)
GetStartExits ==
    /\ MayEnter
    /\ \E list \in UserIncludePathLists :
          LET user == UserIncludePaths(join(list))
              include_paths == IF join(list) # <<>>
                               THEN IncludePaths(SYS_INCLUDE_PATHS, user)
                               ELSE SYS_INCLUDE_PATHS
          IN /\ ~_verify_include_paths(include_paths, fs_dirs)
             /\ user_path_list' = list
             /\ user_include_paths' = user
             /\ SYS_INCLUDE_PATHS' = include_paths
             /\ results' = Append(results,
                                  CallRecord("exit", None, list, FALSE, <<>>, <<>>,
                                             <<>>, <<>>))
    /\ UNCHANGED <<chainVars, typeVars, visitVars, pos, count, symbols, tr_pc,
                   fs_dirs, target_is_file, entry, tu_diagnostics, tu_includes,
                   clang_args, pc>>

\* lines 835-842: the front end parses the target file
GetParse ==
    /\ pc = "parse"
    /\ target_is_file
    /\ pc' = "traverse"
    /\ UNCHANGED <<chainVars, typeVars, visitVars, walkVars, user_path_list,
                   SYS_INCLUDE_PATHS, fs_dirs, target_is_file, entry,
                   tu_diagnostics, tu_includes, clang_args, results>>

\* lines 839-841 on a file that does not exist: index.parse is called and
\* raises TranslationUnitLoadError, which nothing catches
GetParseRaises ==
    /\ pc = "parse"
    /\ ~target_is_file
    /\ results' = Append(results,
                         CallRecord("raised", "TranslationUnitLoadError",
                                    user_path_list, TRUE, clang_args,
                                    <<>>, <<>>, <<>>))
    /\ pc' = "ready"
    /\ UNCHANGED <<chainVars, typeVars, visitVars, walkVars, user_path_list,
                   SYS_INCLUDE_PATHS, fs_dirs, target_is_file, entry,
                   tu_diagnostics, tu_includes, clang_args>>

\* line 848: the traversal, with a fresh symbol list and macro site table
GetTraverse ==
    /\ pc = "traverse"
    /\ LET st == _traverse_ast(ast, TargetFile, user_include_paths)
       IN /\ ~st.raised
          /\ macro_instant_locs_name_map' = st.map
          /\ symbols' = st.symbols
          /\ count' = st.count
    /\ pc' = "finish"
    /\ UNCHANGED <<chainVars, typeVars, ast, v_cursor, symbol, v_pc,
                   user_include_paths, pos, tr_pc, user_path_list,
                   SYS_INCLUDE_PATHS, fs_dirs, target_is_file, entry,
                   tu_diagnostics, tu_includes, clang_args, results>>

\* line 848, when the traversal raises: the call ends with the exception
GetTraverseRaises ==
    /\ pc = "traverse"
    /\ LET st == _traverse_ast(ast, TargetFile, user_include_paths)
       IN /\ st.raised
          /\ macro_instant_locs_name_map' = st.map
          /\ symbols' = st.symbols
          /\ count' = st.count
    /\ results' = Append(results,
                         CallRecord("raised", TraversalError(ast, TargetFile),
                                    user_path_list, TRUE, clang_args,
                                    <<>>, <<>>, <<>>))
    /\ pc' = "ready"
    /\ UNCHANGED <<chainVars, typeVars, ast, v_cursor, symbol, v_pc,
                   user_include_paths, pos, tr_pc, user_path_list,
                   SYS_INCLUDE_PATHS, fs_dirs, target_is_file, entry,
                   tu_diagnostics, tu_includes, clang_args>>

\* each string put at the front of the list
ErrorsLatestFirst(diagnostics) ==
    [k \in 1..Len(diagnostics) |->
        DiagnosticStr(diagnostics[Len(diagnostics) + 1 - k])]

\* lines 854-861
Errors(diagnostics) ==
    [k \in 1..Len(diagnostics) |-> DiagnosticStr(diagnostics[k])]

\* lines 854-890: errors, include list and the result
GetFinish ==
    /\ pc = "finish"
    /\ results' =
           Append(results,
                  CallRecord("returned", None, user_path_list, TRUE, clang_args,
                             symbols,
                             IncludeList(tu_includes, TargetFile,
                                         user_include_paths),
                             Errors(tu_diagnostics)))
    /\ pc' = "ready"
    /\ UNCHANGED <<chainVars, typeVars, visitVars, walkVars, user_path_list,
                   SYS_INCLUDE_PATHS, fs_dirs, target_is_file, entry,
                   tu_diagnostics, tu_includes, clang_args>>

Next ==
    MainExits \/ GetStart \/ GetStartExits \/ GetParse \/ GetParseRaises
        \/ GetTraverse \/ GetTraverseRaises \/ GetFinish

\* the directories that exist: all of them, all but one user directory, or
\* all but one system directory
AllDirs == {SysDir1, SysDir2, IncDir, Inc2Dir}
DirectorySets == {AllDirs, AllDirs \ {Inc2Dir}, AllDirs \ {SysDir1}}
\* what the front end reports for the target file: inclusion of a user
\* header, of a header from there, of a system header and of a header from
\* there, and of a header from the header of the second user directory
Inclusions ==
    << [include |-> UserHeader, file |-> TargetFile, line |-> 1, depth |-> 1],
       [include |-> Inc2Header, file |-> UserHeader, line |-> 1, depth |-> 2],
       [include |-> SysHeader, file |-> TargetFile, line |-> 2, depth |-> 1],
       [include |-> SysDir2 \o <<"/", "t.h">>, file |-> SysHeader, line |-> 1,
        depth |-> 2],
       [include |-> SysHeader, file |-> Inc2Header, line |-> 1, depth |-> 3] >>
\* and its diagnostics, up to MaxDiagnostics of them
DiagnosticTexts == <<"unknown type name", "expected ';'", "file not found">>
Diagnostics(n) ==
    [k \in 1..n |-> [file |-> TargetFile, line |-> k,
                     text |-> DiagnosticTexts[((k - 1) % 3) + 1]]]

\* the translation units of the entry point: the walks of up to MaxUnitNodes
\* nodes
UnitShapes(n) ==
    { [Function EXCEPT !.kind = "FUNCTION_DECL", !.line = n],
      [ClassA EXCEPT !.line = n, !.kind = "STRUCT_DECL", !.spelling = ""],
      [Function EXCEPT !.kind = "FUNCTION_TEMPLATE", !.line = n,
                       !.result_type = TypeParameter(0, 0)],
      [Function EXCEPT !.kind = "FUNCTION_TEMPLATE", !.line = n,
                       !.result_type = DependentType],
      [Macro EXCEPT !.file = UserHeader, !.line = n + 1] }
RECURSIVE UnitTrees(_)
UnitTrees(n) ==
    IF n = 0 THEN {<<>>}
    ELSE { Append(x[1], [x[2] EXCEPT !.parent = TranslationUnit]) :
             x \in UnitTrees(n - 1) \X UnitShapes(n) }

EntryIdle ==
    /\ user_path_list = <<>>
    /\ SYS_INCLUDE_PATHS = InitialSysIncludePaths
    /\ fs_dirs = AllDirs
    /\ target_is_file = TRUE
    /\ entry = "get"
    /\ tu_diagnostics = <<>>
    /\ tu_includes = <<>>
    /\ clang_args = <<>>
    /\ pc = "idle"
    /\ results = <<>>

\* a process that runs the command line or calls get, on a target file that
\* exists or not; a file that does not exist has no translation unit, and
\* headers are only included from directories that exist
Init ==
    /\ fs_dirs \in DirectorySets
    /\ target_is_file \in BOOLEAN
    /\ entry \in {"get", "main"}
    /\ IF target_is_file
       THEN /\ ast \in UNION { UnitTrees(n) : n \in 1..MaxUnitNodes }
            /\ \/ tu_includes = <<>> /\ tu_diagnostics = <<>>
               \/ /\ tu_includes = IF fs_dirs = AllDirs THEN Inclusions ELSE <<>>
                  /\ tu_diagnostics \in { Diagnostics(n) : n \in 1..MaxDiagnostics }
       ELSE /\ ast = <<>>
            /\ tu_includes = <<>>
            /\ tu_diagnostics = <<>>
    /\ macro_instant_locs_name_map = <<>>
    /\ v_cursor = TranslationUnit
    /\ symbol = <<>>
    /\ v_pc = "idle"
    /\ WalkIdle
    /\ user_path_list = <<>>
    /\ SYS_INCLUDE_PATHS = InitialSysIncludePaths
    /\ clang_args = <<>>
    /\ pc = "ready"
    /\ results = <<>>

(***************************************************************************)
(* Claims about the Type Descriptor recursion and the alias chain.         *)
(***************************************************************************)

RECURSIVE AliasLayersFrom(_, _)
AliasLayersFrom(t, seen) ==
    IF get_declaration_kind(t) # "TYPEDEF_DECL" \/ t \in seen THEN seen
    ELSE AliasLayersFrom(underlying_typedef_type(t), seen \cup {t})

\* C2: alias-chain construction terminates for every type, a typedef cycle
\* included, and the chain never holds more than (number of distinct alias
\* layers + 1) entries.
C2_ChainBounded ==
    Len(chain) <= Cardinality(AliasLayersFrom(type_obj, {})) + 1

IsAliasType(t) == get_declaration_kind(t) # "NO_DECL_FOUND"

\* every entry but the last has a declaration whose underlying type is the
\* next entry
ChainFollowsUnderlying ==
    /\ chain[1] = type_obj
    /\ \A i \in 1..(Len(chain) - 1) :
          /\ get_declaration_kind(chain[i]) # "NO_DECL_FOUND"
          /\ chain[i + 1] = underlying_typedef_type(chain[i])

\* the typedef layers over the first type that is not a typedef, when the
\* typedefs do not form a cycle
TypedefLayers(t) == Cardinality(AliasLayersFrom(t, {}))
OverNonAliasBase(t) ==
    \E b \in TypeIds :
        /\ get_declaration_kind(b) # "TYPEDEF_DECL"
        /\ \E n \in 0..MaxTypes :
              \E path \in [1..(n + 1) -> TypeIds] :
                  /\ path[1] = t
                  /\ path[n + 1] = b
                  /\ \A i \in 1..n : path[i + 1] = underlying_typedef_type(path[i])

NeighboursDiffer(t) ==
    \A a \in AliasLayersFrom(t, {}) :
        spelling(underlying_typedef_type(a)) # spelling(a)

Emitted(i) == ~Skipped(ast[i], TargetFile) /\ ~VisitRaises(ast, i)
EmittedUpTo(i) == Cardinality({ j \in 1..i : Emitted(j) })
IdNumber(s) == s.id[3]

\* C4: within one traversal the ids of the emitted symbols are pairwise
\* distinct and strictly increasing in pre-order: the k-th emitted symbol
\* carries the number k and is the symbol of the k-th node that is not
\* skipped; skipped nodes consume no number.
C4_IdsCountEmitted ==
    tr_pc \in {"walk", "returned", "raised"} =>
        /\ Len(symbols) = EmittedUpTo(pos - 1)
        /\ count = Len(symbols)
        /\ \A k \in 1..Len(symbols) : symbols[k].id = SymbolId(TargetFile, k)
        /\ \A j, k \in 1..Len(symbols) :
               j < k => IdNumber(symbols[j]) < IdNumber(symbols[k])
        /\ \A i \in 1..(pos - 1) :
               Emitted(i) =>
                   symbols[EmittedUpTo(i)].location = _format_location(ast[i])

\* a finished traversal with a skipped node between two emitted ones
C4_Witness ==
    /\ tr_pc = "returned"
    /\ \E i, j, k \in 1..Len(ast) :
          /\ i < j /\ j < k
          /\ Emitted(i) /\ Skipped(ast[j], TargetFile) /\ Emitted(k)
          /\ IdNumber(symbols[EmittedUpTo(k)]) = IdNumber(symbols[EmittedUpTo(i)]) + 1

\* C5: two calls of the entry point on the same target file with the same
\* user include paths return the same symbols, with the same ids, locations
\* and declarations, and hand the same compiler arguments to the front end.
C5_SameInputSameRun ==
    \A i, j \in 1..Len(results) :
        /\ results[i].outcome = "returned"
        /\ results[j].outcome = "returned"
        /\ results[i].user_include_path_list = results[j].user_include_path_list
        => /\ results[i].symbols = results[j].symbols
           /\ results[i].clang_args = results[j].clang_args

\* C6: the process-wide system include path list is the same before and
\* after any sequence of calls of the entry point.
C6_SysIncludePathsUnchanged == SYS_INCLUDE_PATHS = InitialSysIncludePaths

(***************************************************************************)
(* Claims about the symbol assembler and the hierarchy.                    *)
(***************************************************************************)
Range(list) == { list[i] : i \in 1..Len(list) }
Visited == ast[v_cursor]
Has(key) == key \in DOMAIN symbol

\* C7: every function-like symbol has no_throw_guarantee equal to one of
\* guaranteed, not_guaranteed, unevaluated, chosen from the exception
\* specification kind (noexcept or throw() -> guaranteed; unevaluated ->
\* unevaluated; anything else -> not_guaranteed), and a guaranteed symbol
\* has "noexcept" in its specifier list.
C7_NoThrowGuarantee ==
    (v_pc = "done" /\ Visited.kind \in func_like_CursorKind) =>
        /\ Has("no_throw_guarantee")
        /\ symbol.no_throw_guarantee =
              CASE Visited.exception_specification_kind
                      \in {"BASIC_NOEXCEPT", "DYNAMIC_NONE"} -> "guaranteed"
                [] Visited.exception_specification_kind = "UNEVALUATED" ->
                      "unevaluated"
                [] OTHER -> "not_guaranteed"
        /\ symbol.no_throw_guarantee = "guaranteed" =>
              "noexcept" \in Range(symbol.specifier)

\* a method whose exception specification is unevaluated
C7_Witness ==
    /\ v_pc = "done"
    /\ Visited.kind = "CXX_METHOD"
    /\ Visited.exception_specification_kind = "UNEVALUATED"
    /\ symbol.no_throw_guarantee = "unevaluated"

ConstructorKinds == <<"default", "copy", "move", "converting">>
ConstructorPredicate(cursor, name) ==
    CASE name = "default" -> cursor.is_default_constructor
      [] name = "copy" -> cursor.is_copy_constructor
      [] name = "move" -> cursor.is_move_constructor
      [] name = "converting" -> cursor.is_converting_constructor

\* C8 as stated: constructor_property holds at most one of default, copy,
\* move, converting, whatever the predicates answer, and the one kept is the
\* first that holds in the order default > copy > move > converting.
C8_AtMostOneKind ==
    (v_pc = "done" /\ Visited.kind = "CONSTRUCTOR") =>
        \A i \in 1..4 :
            ConstructorKinds[i] \in Range(symbol.constructor_property) <=>
                /\ ConstructorPredicate(Visited, ConstructorKinds[i])
                /\ \A j \in 1..(i - 1) :
                      ~ConstructorPredicate(Visited, ConstructorKinds[j])

\* C8 (amended): constructor_property holds each of default, copy, move,
\* converting exactly when the predicate of that name holds, so it holds
\* several of them when several predicates hold, and they stand in the order
\* default, copy, move, converting.
C8_EveryHoldingKind ==
    (v_pc = "done" /\ Visited.kind = "CONSTRUCTOR") =>
        LET kinds == SelectSeq(symbol.constructor_property,
                               LAMBDA x : x \in Range(ConstructorKinds))
        IN kinds = SelectSeq(ConstructorKinds,
                             LAMBDA x : ConstructorPredicate(Visited, x))

\* a copy constructor, which the front end also reports as converting
C8_Witness ==
    /\ v_pc = "done"
    /\ Visited.kind = "CONSTRUCTOR"
    /\ Visited.is_copy_constructor /\ Visited.is_converting_constructor
    /\ ~Visited.is_default_constructor /\ ~Visited.is_move_constructor
    /\ {"copy", "converting"} \subseteq Range(symbol.constructor_property)

ConstPureVirtualVisited ==
    /\ v_pc = "done"
    /\ Visited.kind = "CXX_METHOD"
    /\ Visited.is_const_method
    /\ Visited.is_pure_virtual_method

\* C9 as stated: for a const pure virtual method, method_property holds
\* virtual and pure_virtual and the specifier list holds "const" and "= 0".
C9_SpecifierHasConst ==
    ConstPureVirtualVisited =>
        /\ {"virtual", "pure_virtual"} \subseteq Range(symbol.method_property)
        /\ {"const", "= 0"} \subseteq Range(symbol.specifier)

\* C9 (amended): for a const pure virtual method, method_property holds
\* const, virtual and pure_virtual; the specifier list holds "= 0" and not
\* "const"; "const" and "= 0" both stand in the synthesized declaration.
C9_ConstInMethodProperty ==
    ConstPureVirtualVisited =>
        /\ {"const", "virtual", "pure_virtual"}
              \subseteq Range(symbol.method_property)
        /\ "= 0" \in Range(symbol.specifier)
        /\ "const" \notin Range(symbol.specifier)
        /\ symbol.from_macro = None =>
              {"const", "= 0"} \subseteq Range(symbol.declaration)

\* virtual void f() const = 0; in class A
C9_Witness ==
    /\ ConstPureVirtualVisited
    /\ ~Visited.final_attr /\ ~Visited.override_attr
    /\ Visited.exception_specification_kind = "NONE"
    /\ symbol.from_macro = None
    /\ symbol.specifier = <<"= 0">>

\* the j-th semantic parent of node i
RECURSIVE Ancestor(_, _)
Ancestor(i, j) ==
    IF j = 0 \/ i = TranslationUnit THEN i ELSE Ancestor(ast[i].parent, j - 1)

\* the number of semantic-parent steps from node i that do not yet reach the
\* translation unit
NestingDepth(i) ==
    CHOOSE d \in 0..Len(ast) :
        /\ Ancestor(i, d + 1) = TranslationUnit
        /\ Ancestor(i, d) # TranslationUnit

\* C10: _collect_hierarchy returns the proper ancestors of the node below
\* the translation unit, outermost first and the immediate parent last: as
\* many entries as the node is nested deep, parent_kind the kind of the last
\* entry, and the empty list with parent_kind "(global)" for a node whose
\* parent is the translation unit.
C10_HierarchyIsAncestors ==
    v_pc = "done" =>
        LET h == symbol.hierarchy
            depth == NestingDepth(v_cursor)
        IN /\ Len(h) = depth
           /\ \A k \in 1..Len(h) :
                 LET a == ast[Ancestor(v_cursor, depth - k + 1)]
                 IN /\ h[k].location = a.file \o <<":", a.line>>
                    /\ h[k].kind = _format_syntax_kind(a.kind)
                    /\ h[k].transparent = (a.kind = "ENUM_DECL" /\ ~a.is_scoped_enum)
           /\ symbol.parent_kind =
                 IF ast[v_cursor].parent = TranslationUnit THEN "(global)"
                 ELSE h[Len(h)].kind

\* a node nested two levels deep, in scopes of different kinds
C10_Witness ==
    /\ v_pc = "done"
    /\ Len(symbol.hierarchy) = 2
    /\ symbol.hierarchy[1].kind = "namespace"
    /\ symbol.hierarchy[2].kind = "class_declaration"
    /\ symbol.parent_kind = "class_declaration"

(***************************************************************************)
(* Claims about type parameters, record fields and type categories.        *)
(***************************************************************************)
\* the proper ancestors of node c below the translation unit, outermost first
AncestorsOf(c) ==
    [k \in 1..NestingDepth(c) |-> Ancestor(c, NestingDepth(c) - k + 1)]
TemplateAncestorsOf(c) ==
    SelectSeq(AncestorsOf(c),
              LAMBDA a : ast[a].kind \in {"CLASS_TEMPLATE", "FUNCTION_TEMPLATE"})
\* the template that owns a type parameter of level L met at node c
OwnerOf(c, L) ==
    IF L < Len(TemplateAncestorsOf(c)) THEN TemplateAncestorsOf(c)[L + 1]
    ELSE ast[c].parent
\* the descriptor returned by the recursive call of the call that returned d
InnerOf(t, d) ==
    CASE Category(t) = "alias" -> d.type_info.canonical_type
      [] Category(t) = "array" -> d.type_info.array_element_type
      [] Category(t) = "pointer" -> d.type_info.pointee_type
\* every type-parameter descriptor in d, the descriptor of type t of node c,
\* names the coordinates and the owner of the parameter
RECURSIVE NamesOwner(_, _, _)
NamesOwner(t, d, c) ==
    IF d.type_info.is_type_param
    THEN LET loc == d.type_info.type_param_decl_location
         IN /\ t.base = "type_parameter"
            /\ loc.param_index = t.index
            /\ loc.template_spelling = ast[OwnerOf(c, t.level)].spelling
            /\ loc.template_location
                  = _format_location(ast[OwnerOf(c, t.level)])
    ELSE Recurses(t) => NamesOwner(RecursionArg(t), InnerOf(t, d), c)

Qualifies(i) ==
    /\ ast[i].file = TargetFile
    /\ ast[i].kind \in interested_CursorKinds
    /\ ast[i].spelling # ""
QualifyingBefore(n) == SelectSeq([i \in 1..n |-> i], Qualifies)

\* C12: the traversal emits one symbol record for exactly the nodes that are
\* in the target file, of a kind of the allow-list and named, in pre-order;
\* so every record has a non-empty spelling.  (A traversal that raises
\* returns nothing.)
C12_EmitsExactlyQualifying ==
    tr_pc \in {"walk", "returned"} =>
        LET q == QualifyingBefore(pos - 1)
        IN /\ Len(symbols) = Len(q)
           /\ \A k \in 1..Len(q) :
                 /\ symbols[k].location = _format_location(ast[q[k]])
                 /\ symbols[k].spelling = ast[q[k]].spelling
                 /\ symbols[k].kind = _format_syntax_kind(ast[q[k]].kind)
           /\ \A k \in 1..Len(symbols) : symbols[k].spelling # ""

\* a finished traversal that met an anonymous struct, a declaration of
\* another file and one of a kind outside the allow-list, and emitted nothing
\* for them
C12_Witness ==
    /\ tr_pc = "returned"
    /\ Len(ast) = 3
    /\ symbols = <<>>
    /\ \E i \in 1..3 : ast[i].spelling = "" /\ ast[i].file = TargetFile
    /\ \E i \in 1..3 : ast[i].kind = "FUNCTION_DECL" /\ ast[i].file = UserHeader
    /\ \E i \in 1..3 : ast[i].kind = "UNEXPOSED_DECL"

\* the fields that depend on the kind of the node
KindSpecificKeys ==
    {"from_macro", "declaration", "is_template", "template_args_list",
     "args_list", "return_type", "specifier", "no_throw_guarantee",
     "base_clause", "is_abstract", "size", "access", "POD", "type",
     "type_alias_underlying_type", "type_alias_chain", "canonical_type",
     "is_deleted", "method_property", "constructor_property",
     "destructor_property", "static_member", "scoped_enum",
     "enum_underlying_type", "enum_value"}

\* the kinds of node a field applies to; `returns` are the function-like
\* kinds that have a return type
AppliesTo(key, c, returns) ==
    LET kind == ast[c].kind
        in_class == ParentKind(ast, c) \in class_like_CursorKind
        func == kind \in func_like_CursorKind
        class == kind \in class_like_CursorKind
        typed == kind \in {"VAR_DECL", "FIELD_DECL", "ENUM_CONSTANT_DECL",
                           "CLASS_DECL", "STRUCT_DECL"}
    IN CASE key \in {"declaration", "is_template", "template_args_list",
                     "specifier"} -> func \/ class
         [] key \in {"from_macro", "args_list", "no_throw_guarantee"} -> func
         [] key = "return_type" -> kind \in returns
         [] key \in {"base_clause", "is_abstract"} -> class
         [] key = "size" -> class \/ typed
         [] key = "access" -> in_class
         [] key \in {"POD", "type"} -> typed
         [] key \in {"type_alias_underlying_type", "type_alias_chain",
                     "canonical_type"} ->
                kind \in {"TYPEDEF_DECL", "TYPE_ALIAS_DECL"}
         [] key \in {"is_deleted", "method_property"} ->
                \/ kind \in {"CXX_METHOD", "CONVERSION_FUNCTION", "CONSTRUCTOR",
                             "DESTRUCTOR"}
                \/ kind = "FUNCTION_TEMPLATE" /\ in_class
         [] key = "constructor_property" -> kind = "CONSTRUCTOR"
         [] key = "destructor_property" -> kind = "DESTRUCTOR"
         [] key = "static_member" ->
                kind = "FIELD_DECL" \/ (kind = "VAR_DECL" /\ in_class)
         [] key = "scoped_enum" -> kind = "ENUM_DECL"
         [] key = "enum_underlying_type" ->
                kind \in {"ENUM_DECL", "ENUM_CONSTANT_DECL"}
         [] key = "enum_value" -> kind = "ENUM_CONSTANT_DECL"

\* C13 as stated: a kind-specific field is present only for the kinds it
\* applies to, and the return type of a constructor or destructor record is
\* absent.
C13_ReturnTypeAbsent ==
    v_pc = "done" =>
        \A key \in KindSpecificKeys :
            Has(key) =>
                AppliesTo(key, v_cursor,
                          func_like_CursorKind \ {"CONSTRUCTOR", "DESTRUCTOR"})

\* C13 (amended): a kind-specific field is present exactly for the kinds it
\* applies to, where return_type is a field of every function-like record:
\* null for a constructor or destructor, a Type Descriptor otherwise.
C13_ReturnTypeNull ==
    v_pc = "done" =>
        /\ \A key \in KindSpecificKeys :
              Has(key) <=> AppliesTo(key, v_cursor, func_like_CursorKind)
        /\ Visited.kind \in func_like_CursorKind =>
              (symbol.return_type = NoDescriptor
                  <=> Visited.kind \in {"CONSTRUCTOR", "DESTRUCTOR"})

\* the record of a constructor, with return_type null
C13_Witness ==
    /\ v_pc = "done"
    /\ Visited.kind = "CONSTRUCTOR"
    /\ Has("return_type")
    /\ symbol.return_type = NoDescriptor

\* the category of the first matching rule, in the stated order
FirstMatchingRule(t) ==
    LET k == type_kind(t)
    IN IF k \in AliasKinds THEN "alias"
       ELSE IF k = "UNEXPOSED" /\ CanonicalSpellingMatches(t)
            THEN "type_parameter"
       ELSE IF k = "UNEXPOSED" /\ Last(TypeSpelling(t)) = ")" THEN "function"
       ELSE IF k \in array_TypeKind THEN "array"
       ELSE IF k \in pointer_TypeKind THEN "pointer"
       ELSE "plain"
Flag(info, key) == key \in DOMAIN info /\ info[key]
CategoryFlags == {"is_type_alias", "is_type_param", "is_function", "is_array",
                  "is_pointer"}
FlagOfCategory(category) ==
    CASE category = "alias" -> "is_type_alias"
      [] category = "type_parameter" -> "is_type_param"
      [] category = "function" -> "is_function"
      [] category = "array" -> "is_array"
      [] category = "pointer" -> "is_pointer"
      [] OTHER -> "none"
InnerKey(category) ==
    CASE category = "alias" -> "canonical_type"
      [] category = "array" -> "array_element_type"
      [] category = "pointer" -> "pointee_type"
RECURSIVE FollowsRules(_, _)
FollowsRules(t, d) ==
    LET category == FirstMatchingRule(t)
    IN /\ \A key \in CategoryFlags :
             Flag(d.type_info, key) <=> key = FlagOfCategory(category)
       /\ category \in {"alias", "array", "pointer"} =>
             /\ InnerKey(category) \in DOMAIN d.type_info
             /\ FollowsRules(RecursionArg(t), d.type_info[InnerKey(category)])

\* C18: every descriptor returned, and every descriptor nested in it, has the
\* category of the first matching rule in the order alias, type parameter,
\* function, array, pointer, plain: the flag of that category is the only
\* one that is true, and none is true for plain.
C18_FirstMatchingRule ==
    t_pc = "done" => FollowsRules(t_input, t_res)

(***************************************************************************)
(* Claims about the entry point: fatal errors, diagnostics, include list.  *)
(***************************************************************************)
\* the include paths of a call as its caller knows them
CallIncludePaths(r) ==
    Range(InitialSysIncludePaths) \cup Range(r.user_include_path_list)
NoResult(r) ==
    r.symbols = <<>> /\ r.includes = <<>> /\ r.errors = <<>>

\* C14: a call one of whose system or user include paths is not an existing
\* directory ends by exiting the process before index.parse is called, and
\* returns no result; the parse is only reached with every path found.
C14_MissingIncludePathExits ==
    /\ \A k \in 1..Len(results) :
          ~(CallIncludePaths(results[k]) \subseteq fs_dirs) =>
              /\ results[k].outcome = "exit"
              /\ ~results[k].parsed
              /\ results[k].clang_args = <<>>
              /\ NoResult(results[k])
    /\ pc \in {"parse", "traverse", "finish"} =>
          Range(InitialSysIncludePaths) \cup Range(user_include_paths)
              \subseteq fs_dirs

\* a call given a user directory that does not exist has exited
C14_Witness ==
    \E k \in 1..Len(results) :
        /\ Inc2Dir \notin fs_dirs
        /\ results[k].user_include_path_list = <<Inc2Dir>>
        /\ results[k].outcome = "exit"

\* C15: when the target file does not exist, no call of the engine, from the
\* command line or through get, reaches index.parse: every call ends by a
\* fatal exit with the front end not invoked.
C15_MissingFileNeverParsed ==
    ~target_is_file =>
        \A k \in 1..Len(results) :
            results[k].outcome = "exit" /\ ~results[k].parsed

\* C16: diagnostics do not decide how a call ends: a call that parsed the
\* target ends by returning a result exactly when its traversal did not
\* raise, whatever the number of diagnostics, and the errors of a returned
\* result are one string per diagnostic, in the order of the front end,
\* next to the symbols of the traversal.
C16_DiagnosticsPassThrough ==
    \A k \in 1..Len(results) :
        LET r == results[k]
            st == _traverse_ast(ast, TargetFile,
                                UserIncludePaths(join(r.user_include_path_list)))
        IN /\ (r.parsed /\ target_is_file) =>
                 (r.outcome = "returned" <=> ~st.raised)
           /\ r.outcome = "returned" =>
                 /\ Len(r.errors) = Len(tu_diagnostics)
                 /\ \A d \in 1..Len(tu_diagnostics) :
                       r.errors[d] = DiagnosticStr(tu_diagnostics[d])
                 /\ r.symbols = st.symbols

\* a result returned for a translation unit with MaxDiagnostics diagnostics
C16_Witness ==
    \E k \in 1..Len(results) :
        /\ results[k].outcome = "returned"
        /\ Len(tu_diagnostics) = MaxDiagnostics
        /\ Len(results[k].errors) = MaxDiagnostics
        /\ results[k].symbols # <<>>

\* a file lies inside a directory: below it in the file system
LiesInside(file, dir) ==
    /\ Len(abspath(file)) > Len(abspath(dir))
    /\ SubSeq(abspath(file), 1, Len(abspath(dir))) = abspath(dir)
    /\ abspath(file)[Len(abspath(dir)) + 1] = "/"
MayBeListed(inc, user_path_list_) ==
    \/ inc.file = TargetFile
    \/ \E k \in 1..Len(user_path_list_) : LiesInside(inc.file, user_path_list_[k])

\* C17: the includes of a returned result are exactly the inclusions made by
\* the target file or by a file inside one of the user include directories.
C17_IncludesOfTargetAndUserDirs ==
    \A k \in 1..Len(results) :
        results[k].outcome = "returned" =>
            LET listed == SelectSeq(tu_includes,
                              LAMBDA inc :
                                  MayBeListed(inc, results[k].user_include_path_list))
            IN results[k].includes = [i \in 1..Len(listed) |-> IncludeItem(listed[i])]

(***************************************************************************)
(* Claims about return types: a spelling that is not a parameter's, and    *)
(* calls without hierarchy and node.                                       *)
(***************************************************************************)
\* node i is visited and its return type is an unexposed type that is neither
\* a function type nor a template type parameter
DependentReturn(i) ==
    /\ ~Skipped(ast[i], TargetFile)
    /\ ast[i].kind \in func_like_CursorKind \ no_return_funcs_CursorKindCursorKind
    /\ ast[i].result_type.base = "dependent"
VisitedEarlier(i) ==
    { j \in 1..(i - 1) : ~Skipped(ast[j], TargetFile) }

\* C19: a call whose traversal visits a node with such a return type ends by
\* an exception and returns nothing: no symbols, includes or errors.  The
\* exception is the ValueError of _format_type_param_decl_location unless
\* the visit of an earlier node has raised already.
C19_NonMatchingSpellingRaises ==
    /\ \A k \in 1..Len(results) :
          (results[k].parsed /\ \E i \in 1..Len(ast) : DependentReturn(i)) =>
              /\ results[k].outcome = "raised"
              /\ NoResult(results[k])
              /\ (\E i \in 1..Len(ast) :
                     /\ DependentReturn(i)
                     /\ \A j \in VisitedEarlier(i) : ~VisitRaises(ast, j))
                    => results[k].error = "ValueError"
    /\ pc = "finish" => \A i \in 1..Len(ast) : ~DependentReturn(i)

\* a call that visited a function first and then the node with the
\* dependent return type, and ended by the ValueError
C19_Witness ==
    \E k \in 1..Len(results) :
        /\ results[k].outcome = "raised"
        /\ results[k].error = "ValueError"
        /\ Len(ast) = 2
        /\ DependentReturn(2)
        /\ VisitedEarlier(2) = {1}

\* node i is visited and its return type is a template type parameter
TypeParameterReturn(i) ==
    /\ ~Skipped(ast[i], TargetFile)
    /\ ast[i].kind \in func_like_CursorKind \ no_return_funcs_CursorKindCursorKind
    /\ ast[i].result_type.base = "type_parameter"

\* C20: the return type of a function-like node gets a descriptor although
\* no hierarchy and no node are handed on: a call whose traversal visits only
\* nodes with correctly classified return types, a template type parameter
\* among them, returns a result with one record per visited node.
C20_ReturnTypeWithoutNode ==
    \A k \in 1..Len(results) :
        (/\ results[k].parsed
         /\ \E i \in 1..Len(ast) : TypeParameterReturn(i)
         /\ \A i \in 1..Len(ast) : ~DependentReturn(i)) =>
            /\ results[k].outcome = "returned"
            /\ Len(results[k].symbols) = Cardinality(VisitedEarlier(Len(ast) + 1))

(***************************************************************************)
(* The element count of an array descriptor (SpecType).                    *)
(***************************************************************************)
\* the call that has just returned t_res
Returned == Last(t_stack)

\* C21: the descriptor of a constant array holds the element count the front
\* end reports, whatever the count, and the descriptor of an incomplete,
\* variable or dependent-sized array holds no count
C21_ArraySizeIsElementCount ==
    (t_pc = "return" /\ type_kind(Returned) \in array_TypeKind) =>
        t_res.type_info.array_size =
            IF type_kind(Returned) = "CONSTANTARRAY"
            THEN <<Returned.num_elements>>
            ELSE NoSize

(***************************************************************************)
(* Destructors and deleted methods (SpecVisit).                            *)
(***************************************************************************)
\* the node is declared `= delete`
MarkedDeleted(cursor) == cursor.delete_token = "marked"

\* C22: every destructor node yields a record, and its destructor_property
\* holds "delete", "default", "virtual" and "pure_virtual" exactly when the
\* destructor is deleted, defaulted, virtual and pure virtual
C22_DestructorPropertyOfEveryDestructor ==
    (v_pc \in {"done", "raised"} /\ Visited.kind = "DESTRUCTOR") =>
        /\ v_pc = "done"
        /\ LET property == Range(symbol.destructor_property)
           IN /\ "delete" \in property <=> MarkedDeleted(Visited)
              /\ "default" \in property <=> Visited.is_default_method
              /\ "virtual" \in property <=> Visited.is_virtual_method
              /\ "pure_virtual" \in property
                     <=> Visited.is_pure_virtual_method

\* C23: a method-like symbol is reported as deleted, by is_deleted and by
\* "delete" in method_property, exactly when its declaration is marked
\* `= delete`; a keyword delete elsewhere in its tokens does not count
C23_DeletedOnlyWhenMarked ==
    (v_pc = "done" /\ IsMethodLike(ast, v_cursor)) =>
        /\ symbol.is_deleted <=> MarkedDeleted(Visited)
        /\ "delete" \in Range(symbol.method_property)
               <=> MarkedDeleted(Visited)

(***************************************************************************)
(* Macro expansion sites and function-like records (SpecTraverse).         *)
(***************************************************************************)
\* the sites recorded before node i of the walk for the location of node i
SitesBefore(i) ==
    { j \in 1..(i - 1) :
        /\ RecordsMacro(ast[j], TargetFile, user_include_paths)
        /\ _format_location(ast[j]) = _format_location(ast[i]) }

Latest(S) == CHOOSE j \in S : \A k \in S : k <= j

StructuredKeys == {"args_list", "template_args_list", "return_type", "specifier"}

\* the record s of the function-like node i: from_macro is the name of the
\* latest site recorded before it, both declarations are the source text when
\* there is one and the prototype with ";" when there is none, and the
\* structured fields are those of a visit with an empty table
RecordOfEarlierSites(s, i) ==
    LET from_macro == IF SitesBefore(i) = {} THEN None
                      ELSE ast[Latest(SitesBefore(i))].spelling
        func_proto_tuple == _format_func_proto(ast[i])
        plain == _visit_cursor(ast, i, <<>>)
    IN /\ s.from_macro = from_macro
       /\ from_macro # None =>
              /\ s.declaration = _get_text_range(ast[i])
              /\ s.declaration_pretty = _get_text_range(ast[i])
       /\ from_macro = None =>
              /\ s.declaration = func_proto_tuple.proto_str \o <<";">>
              /\ s.declaration_pretty
                     = func_proto_tuple.proto_str_pretty \o <<";">>
       /\ \A key \in StructuredKeys : s[key] = plain[key]

SiteTableGrows ==
    DOMAIN macro_instant_locs_name_map
        \subseteq DOMAIN macro_instant_locs_name_map'

RecordsKept ==
    /\ Len(symbols') >= Len(symbols)
    /\ SubSeq(symbols', 1, Len(symbols)) = symbols

\* C24: in every step of the traversal the table of sites only grows and the
\* records already made stay as they are, whatever site is recorded later;
\* the record made for a function-like node takes from_macro from the sites
\* recorded before it, its two declarations from the source text or from the
\* prototype accordingly, and its structured fields are the same either way
C24_FromMacroOfEarlierSites ==
    [][ /\ SiteTableGrows
        /\ RecordsKept
        /\ (Len(symbols') > Len(symbols)
              /\ ast[pos].kind \in func_like_CursorKind)
             => RecordOfEarlierSites(Last(symbols'), pos) ]_vars

\* a traversal has returned the record of a function-like node that was made
\* from a site met before the node, and a further site at the node's
\* location was recorded after the node
C24_Witness ==
    /\ tr_pc = "returned"
    /\ \E i \in 1..Len(ast) :
          /\ ast[i].kind \in func_like_CursorKind
          /\ SitesBefore(i) # {}
          /\ \E j \in (i + 1)..Len(ast) :
                /\ RecordsMacro(ast[j], TargetFile, user_include_paths)
                /\ _format_location(ast[j]) = _format_location(ast[i])
          /\ \E n \in 1..Len(symbols) :
                /\ symbols[n].location = _format_location(ast[i])
                /\ symbols[n].from_macro = "DECLARE"
                /\ symbols[n].declaration = _get_text_range(ast[i])

(***************************************************************************)
(* Specifications.                                                         *)
(***************************************************************************)
SpecChainInit == ChainInit /\ TypeIdle /\ VisitIdle /\ WalkIdle /\ EntryIdle
SpecChain == SpecChainInit /\ [][ChainNext]_vars

SpecTypeInit == TypeInit /\ ChainIdle /\ WalkIdle /\ EntryIdle
SpecType == SpecTypeInit /\ [][TypeNext]_vars

SpecVisitInit == VisitInit /\ ChainIdle /\ TypeIdle /\ WalkIdle /\ EntryIdle
SpecVisit == SpecVisitInit /\ [][VisitNext]_vars

SpecTraverseInit == WalkInit /\ ChainIdle /\ TypeIdle /\ EntryIdle
SpecTraverse == SpecTraverseInit /\ [][TraverseNext]_vars

SpecInit == Init /\ ChainIdle /\ TypeIdle
Spec == SpecInit /\ [][Next]_vars

====
